---------------------------- MODULE Spec2Model ----------------------------
(***************************************************************************)
(* A model of the go-smpp client session: the reconnection loop            *)
(* (client.Bind), shutdown (client.Close, client.trysleep), the status     *)
(* channel (client.notify) and the request/response correlation of the     *)
(* Transmitter (inflight map, factory.NewSeq).                              *)
(*                                                                         *)
(* Durations are kept in milliseconds.  The Go code keeps `delay` as a     *)
(* float64 number of seconds; here it is a fixed-point number with three   *)
(* decimals, which gives the same whole seconds as the float64 values      *)
(* (e = 2.718..., e^2 = 7.389..., e^3 = 20.08..., e^4 = 54.59...).         *)
(***************************************************************************)
EXTENDS Integers, Sequences, FiniteSets, TLC

\* ------------------------------------------------------------------ bounds

\* Number of goroutines that call Close().
NumClosers == 2

\* Total number of Dial calls of one run of the reconnection loop.
MaxDials == 5

\* Number of Submit/Query calls.
MaxCalls == 2

\* Number of Dial calls when the loop runs together with the callers of
\* Submit.
TxMaxDials == 2

\* Number of Dial calls when the loop runs as the producer of c.Status: six
\* connections can make more events than the channel holds.
StatusMaxDials == 6

\* Number of Dial calls when the loop runs with the keepalive.
KaMaxDials == 2

\* How long one connection is followed, in units of KaUnit.
KaMaxTime == 10

\* Number of concurrent writers of PDUs: callers of Submit, the EnquireLink
\* timer, the reader with its automatic responses, Close() with its Unbind.
NumWriters == 4

\* Number of bytes of a PDU, each handed to the socket on its own.
PduLen == 2

\* Number of bytes of text one part carries (153 characters of GSM7, 67 of
\* UCS2 in the library), scaled down.
PartSize == 2

\* Longest encoded text given to SubmitLongMsg, in bytes.
MaxTextLen == 5

\* MergeCleanupInterval (5 min in the library), in units of MergeInterval,
\* scaled down.
MergeCleanupInterval == 3

\* How long the Receiver's clock runs.
MaxMergeTime == 7

\* Number of sessions in one process.
NumSessions == 2

\* Requests submitted on one session.
MaxSessSeq == 2

\* Times one session loses its connection.
MaxSessLosses == 1

\* Number of PDUs the SMSC sends to the Receiver.
MaxInbound == 3

\* Goroutines that take sequence numbers from one factory.
NumTakers == 2

\* Most sequence numbers taken from the factory in one behaviour.
MaxTaken == 5

\* Number of Dial calls and time followed on a connection when Close() runs
\* next to the loop and the keepalive.
ShutMaxDials == 3
ShutMaxTime == 6

\* Concurrent calls of SubmitLongMsg.
NumLongCalls == 2

\* Longest text given to the codec, in characters.
MaxCodecLen == 2

\* Number of Dial calls when the loop runs with the bind exchange.
BindMaxDials == 3

\* Most responses with a foreign sequence number one BindFunc call reads.
MaxBindSkips == 1

\* Largest configured WindowSize.
MaxWindow == 1

\* Number of GenericNACK PDUs the SMSC sends.
MaxNacks == 2

\* ------------------------------------------------------- program constants

\* delay := 1.0 (seconds), in milliseconds.
InitialDelay == 1000

\* const maxdelay = 120.0 (seconds), in milliseconds.
maxdelay == 120000

\* math.E with three decimals, as a multiple of 1/1000.
EMilli == 2718

\* time.Second, in milliseconds.
Second == 1000

\* make(chan ConnStatus, 10)
StatusCap == 10

\* ESME_ROK Status = 0x00000000
ESME_ROK == 0

\* ESME_RTHROTTLED Status = 0x00000058
ESME_RINVPASWD == 14
ESME_RTHROTTLED == 88

\* EnquireLink: 10 * time.Second, in units of 5 s (half a period), so that
\* the peer's bytes can arrive between two ticks.
EnquireLinkPeriod == 2

\* EnquireLinkTimeout: 3 x EnquireLink
EnquireLinkTimeout == 3 * EnquireLinkPeriod

\* MergeInterval (1 s), the unit of the Receiver's clock.
MergeInterval == 1

Writers == 1..NumWriters

\* The bytes a text is made of.
TextBytes == {65, 66}

\* The encoded texts that need more than one part.
LongTexts ==
    UNION {[1..n -> TextBytes] : n \in (PartSize + 1)..MaxTextLen}

\* Reference numbers SubmitLongMsg may draw (8 bits).
RefNums == {0, 254}

\* Largest number of parts of one message.
MaxParts == 255

\* The UDH indicator, bit 6 of esm_class.
UDHI == 64

\* Values of ShortMessage.ESMClass given by the caller: default, and
\* store-and-forward mode with a delivery receipt type.
EsmClasses == {0, 7}

\* A text of n equal bytes.
Filler(n) == [i \in 1..n |-> 65]

\* The texts given to SubmitLongMsg: the long texts, one text that fills
\* MaxParts parts exactly and one that needs one part more.
CallTexts ==
    LongTexts \cup {Filler(MaxParts * PartSize), Filler(MaxParts * PartSize + 1)}

\* The errors a Submit of one part can return.
SubmitErrors == {"Timeout", "Protocol", "NotConnected"}

Sessions == 1..NumSessions

\* Sequence numbers the SMSC gives to its requests.
InSeqs == {1, 5}

\* What a call of the user's Handler does.
HandlerOutcomes == {"returns", "blocks", "panics"}

\* DefaultType, the data coding of the SMSC default alphabet.
DefaultType == 0

\* Code points of the texts given to the codec: A, DEL, the first and last
\* characters of the upper half of ISO-8859-1 and some between, and two
\* characters outside ISO-8859-1 (U+0100, U+20AC).
CodePoints == {65, 127, 128, 191, 192, 233, 255, 256, 8364}

\* The texts given to the codec.
Texts == UNION {[1..n -> CodePoints] : n \in 0..MaxCodecLen}

\* 2^16 and 2^15: a uint32 is kept as two 16-bit halves, <<high, low>>, of
\* value high * 2^16 + low, because 2^31 and above are no integers of TLC.
Word == 65536
Half == 32768

Takers == 1..NumTakers

\* The goroutines that call SubmitLongMsg on one Transmitter.
LongCallers == 1..NumLongCalls

\* Destination addresses of the long messages.
Destinations == {"x", "y"}

\* PDU Types: the command ids, uint32 values kept as <<high, low>> halves.
GenericNACKID == <<Half, 0>>
BindReceiverID == <<0, 1>>
BindReceiverRespID == <<Half, 1>>
BindTransmitterID == <<0, 2>>
BindTransmitterRespID == <<Half, 2>>
QuerySMID == <<0, 3>>
QuerySMRespID == <<Half, 3>>
SubmitSMID == <<0, 4>>
SubmitSMRespID == <<Half, 4>>
DeliverSMID == <<0, 5>>
DeliverSMRespID == <<Half, 5>>
UnbindID == <<0, 6>>
UnbindRespID == <<Half, 6>>
ReplaceSMID == <<0, 7>>
ReplaceSMRespID == <<Half, 7>>
CancelSMID == <<0, 8>>
CancelSMRespID == <<Half, 8>>
BindTransceiverID == <<0, 9>>
BindTransceiverRespID == <<Half, 9>>
EnquireLinkID == <<0, 21>>
EnquireLinkRespID == <<Half, 21>>
SubmitMultiID == <<0, 33>>
SubmitMultiRespID == <<Half, 33>>
DataSMID == <<0, 259>>
DataSMRespID == <<Half, 259>>

\* The request ids that have a response id, each with it.
ResponseIDs ==
    {<<BindReceiverID, BindReceiverRespID>>,
     <<BindTransmitterID, BindTransmitterRespID>>,
     <<QuerySMID, QuerySMRespID>>,
     <<SubmitSMID, SubmitSMRespID>>,
     <<DeliverSMID, DeliverSMRespID>>,
     <<UnbindID, UnbindRespID>>,
     <<ReplaceSMID, ReplaceSMRespID>>,
     <<CancelSMID, CancelSMRespID>>,
     <<BindTransceiverID, BindTransceiverRespID>>,
     <<EnquireLinkID, EnquireLinkRespID>>,
     <<SubmitMultiID, SubmitMultiRespID>>,
     <<DataSMID, DataSMRespID>>}

\* The requests a Transmitter sends with Submit and QuerySM, and the
\* responses the SMSC sends back.
TxRequestIDs == {SubmitSMID, QuerySMID}
TxResponseIDs == {SubmitSMRespID, QuerySMRespID}

\* Sequence numbers of bind requests and of the responses the SMSC sends
\* while the client binds.
BindSeqs == {1, 2}

\* command_status of the bind responses: ESME_ROK and ESME_RINVPASWD.
BindStatuses == {ESME_ROK, ESME_RINVPASWD}

Closers == 1..NumClosers

\* The callers of Submit/Query; each makes one call, which registers one
\* waiter.
Callers == 1..MaxCalls

\* ConnStatusID values.
StatusIDs == {"Connected", "Disconnected", "ConnectionFailed", "BindFailed"}

VARIABLES
    pc,            \* position of the client.Bind goroutine
    delay,         \* client.Bind: delay, in milliseconds
    sleep,         \* argument of the last trysleep call, in milliseconds
    timer,         \* time.After(d) of trysleep: "off", "armed", "fired"
    stop,          \* c.stop is closed
    once,          \* c.once: "idle", "running", "done"
    cpc,           \* position of each Close() caller
    connOpen,      \* c.conn holds an open connection
    Status,        \* c.Status: the buffered events
    statusClosed,  \* c.Status is closed
    dials,         \* number of Dial calls so far
    binds,         \* number of BindFunc calls so far
    notified,      \* number of notify calls so far
    unbinds,       \* number of Unbind PDUs written
    stopCloses,    \* number of close(c.stop) executions
    statusCloses,  \* number of close(c.Status) executions
    fails,         \* consecutive failed Dial calls
    cycle,         \* how the current iteration got to retry: "none", "dial", "bind", "lost"
    seq,           \* factory.seq
    wpc,           \* position of each Submit caller
    wseq,          \* p.Header().Seq of each caller's request (0: none yet)
    inflight,      \* the inflight map: sequence number -> caller whose channel rc it holds
    slot,          \* each caller's channel rc (buffer of 1): 0 when empty, else the Seq of the response in it
    outcome,       \* what each Submit call returned: "none" until it returns
    respSeq,       \* Seq of the response each Submit call returned (0: none)
    pending,       \* sequence numbers written on the current connection and not answered yet
    connFirst,     \* the sequence number of the first request written on the current connection (0: none yet)
    stamps,        \* for each event buffered in c.Status, the number of the notify call that sent it
    lastStamp,     \* the number of the notify call whose event the consumer received last (0: none)
    ka,            \* the enquireLink goroutine: "off", "on"
    now,           \* time since the bind succeeded, in units of KaUnit
    due,           \* the ticker of the enquireLink goroutine has fired and its body has not run yet
    eliTime,       \* c.eliTime: when the last EnquireLinkResp was read
    lastRx,        \* when the peer's last bytes arrived
    rxPaced,       \* every gap between two PDUs of the peer on this connection, the bind included, was shorter than EnquireLinkTimeout
    elOut,         \* an EnquireLink was written and is not answered yet
    slotStatus,    \* Header().Status of the response in each caller's channel rc
    respStatus,    \* Header().Status of the response each Submit call received
    rxNacks,       \* number of GenericNACK PDUs read so far
    WindowSize,    \* Transmitter.WindowSize: max concurrent requests (0 = unlimited)
    wstate,        \* write path: what each writer does: "idle", "writing", "done"
    wbytes,        \* write path: number of bytes of its PDU each writer has put on the socket
    wire,          \* the bytes on the socket, each as <<writer, index of the byte in its PDU>>
    longMsg,       \* the encoded text given to SubmitLongMsg (<<>>: none)
    segments,      \* the short_message fields of the parts SubmitLongMsg made of it
    fed,           \* the parts that have reached the Receiver, in the order of arrival
    multipartMessages,  \* Receiver.multipartMessages: refNum -> [total, parts, receivedAt]
    handled,       \* the payloads the Receiver has passed to its Handler, in order
    arrivedAt,     \* when each part of fed reached the Receiver
    mnow,          \* the Receiver's clock, in units of MergeInterval
    mergeDue,      \* mergeLongMessages: ticker.C holds a tick
    cleanupDue,    \* mergeLongMessages: cleanup.C holds a tick
    lsText,        \* SubmitLongMsg: the encoded text of the ShortMessage (<<>>: no call)
    lsEsm,         \* SubmitLongMsg: the ESMClass of the ShortMessage
    lsRef,         \* SubmitLongMsg: the reference number drawn for the call
    lsPc,          \* SubmitLongMsg: "idle", "sending", "returned"
    lsSent,        \* SubmitLongMsg: the SubmitSM parts submitted so far, in order
    lsResps,       \* SubmitLongMsg: the responses collected so far (the part each answers)
    lsErr,         \* SubmitLongMsg: the error returned ("none": none)
    factories,     \* two sessions: factory.seq of each factory
    sInflight,     \* two sessions: the inflight map of each session
    sTable,        \* two sessions: multipartMessages of each session's Receiver
    sStatus,       \* two sessions: the events buffered in each session's Status channel
    sClosed,       \* two sessions: the session is closed
    actor,         \* two sessions: the session the last operation was called on (0: none)
    rxPc,          \* Receiver read loop: "read", "dispatch", "respond", "blocked", "crashed"
    rxLog,         \* Receiver: the PDUs read from the connection so far, in order
    rxOut,         \* Receiver: the responses written to the connection so far, in order
    rxTable,       \* Receiver: multipartMessages
    rxHandled,     \* Receiver: number of Handler calls that have returned
    mgPc,          \* Receiver: the mergeLongMessages goroutine: "idle", or "blocked" inside Handler with messageMu held
    cdText,        \* codec: the text, as Unicode code points
    cdIn,          \* codec: the text in UTF-8, the value of the ISO88591
    cdEnc,         \* codec: the bytes returned by Encode
    cdDec,         \* codec: the bytes returned by Decode of the encoded bytes
    cdType,        \* codec: the data coding returned by Type (-1: not called)
    cdPc,          \* codec: "text", "encoded", "decoded"
    fseq,          \* factory: factory.seq, a uint32 kept as <<high, low>> 16-bit halves
    handed,        \* factory: the sequence numbers handed out, oldest first
    taker,         \* factory: the goroutine that took each of them
    bnFor,         \* bind: the number of the BindFunc call whose request is written (0: none)
    bnSeq,         \* bind: the sequence number of that bind request
    bnResp,        \* bind: the bind response BindFunc took as its own (<<>>: none yet)
    bnSkipped,     \* bind: responses with another sequence number read by this BindFunc call
    idSeq,         \* command ids: factory.seq of the Transmitter
    idPc,          \* command ids: position of each caller: "idle", "wait", "done"
    idReq,         \* command ids: Header().ID and Header().Seq of each caller's request
    idInflight,    \* command ids: the inflight map: sequence number -> caller
    idSlot,        \* command ids: each caller's channel rc: <<>> or the response in it
    idOut,         \* command ids: what each call returned: <<>>, or the result and the response
    rawIn,         \* inbound parts: the DeliverSM PDUs on their way to the Receiver, each with source_addr, destination_addr and short_message
    rawSent,       \* inbound parts: the texts of the long messages the peers sent
    rawFed,        \* inbound parts: the indices of the PDUs the Receiver has read
    rawTable,      \* inbound parts: r.multipartMessages
    rawHandled,    \* inbound parts: the payloads passed to r.Handler, in order
    rawFault,      \* inbound parts: "none", or the goroutine that panicked: "reader", "merger"
    rawChecked,    \* inbound parts: the merge ticker has run since the last part was read
    rfPc,          \* references: position of each SubmitLongMsg call: "idle", "sending", "returned"
    rfDst,         \* references: the destination address of each call's message (the source is the same)
    rfRef,         \* references: the reference number each call drew
    rfSent         \* references: the number of parts each call has submitted

vars == <<pc, delay, sleep, timer, stop, once, cpc, connOpen, Status,
          statusClosed, dials, binds, notified, unbinds, stopCloses,
          statusCloses, fails, cycle, seq, wpc, wseq, inflight, slot,
          outcome, respSeq, pending, connFirst, stamps, lastStamp,
          ka, now, due, eliTime, lastRx, rxPaced, elOut, slotStatus, respStatus,
          rxNacks, WindowSize, wstate, wbytes, wire, longMsg, segments,
          fed, multipartMessages, handled, arrivedAt, mnow, mergeDue,
          cleanupDue, lsText, lsEsm, lsRef, lsPc, lsSent, lsResps, lsErr,
          factories, sInflight, sTable, sStatus, sClosed, actor,
          rxPc, rxLog, rxOut, rxTable, rxHandled, mgPc,
          cdText, cdIn, cdEnc, cdDec, cdType, cdPc,
          fseq, handed, taker,
          bnFor, bnSeq, bnResp, bnSkipped,
          idSeq, idPc, idReq, idInflight, idSlot, idOut,
          rawIn, rawSent, rawFed, rawTable, rawHandled, rawFault, rawChecked,
          rfPc, rfDst, rfRef, rfSent>>

closeVars == <<stop, once, cpc, unbinds, stopCloses>>
txVars == <<seq, wpc, wseq, inflight, slot, outcome, respSeq, slotStatus,
            respStatus, rxNacks, WindowSize>>
obsVars == <<stamps, lastStamp>>
kaVars == <<ka, now, due, eliTime, lastRx, rxPaced, elOut>>
wireVars == <<wstate, wbytes, wire>>
tickVars == <<mnow, mergeDue, cleanupDue>>
mergeVars == <<longMsg, segments, fed, multipartMessages, handled, arrivedAt,
               tickVars>>
lsVars == <<lsText, lsEsm, lsRef, lsPc, lsSent, lsResps, lsErr>>
multiVars == <<factories, sInflight, sTable, sStatus, sClosed, actor>>
rxVars == <<rxPc, rxLog, rxOut, rxTable, rxHandled, mgPc>>
codecVars == <<cdText, cdIn, cdEnc, cdDec, cdType, cdPc>>
seqVars == <<fseq, handed, taker>>
bindVars == <<bnFor, bnSeq, bnResp, bnSkipped>>
idVars == <<idSeq, idPc, idReq, idInflight, idSlot, idOut>>
rawVars == <<rawIn, rawSent, rawFed, rawTable, rawHandled, rawFault, rawChecked>>
refVars == <<rfPc, rfDst, rfRef, rfSent>>
extVars == <<wireVars, mergeVars, lsVars, multiVars, rxVars, codecVars, seqVars, bindVars, idVars, rawVars, refVars>>
sessVars == <<pc, delay, sleep, timer, stop, once, cpc, connOpen, Status,
              statusClosed, dials, binds, notified, unbinds, stopCloses,
              statusCloses, fails, cycle, seq, wpc, wseq, inflight, slot,
              outcome, respSeq, pending, connFirst, stamps, lastStamp, ka, now, due,
              eliTime, lastRx, rxPaced, elOut, slotStatus, respStatus, rxNacks,
              WindowSize>>
notWire == <<sessVars, mergeVars, lsVars, multiVars, rxVars, codecVars, seqVars, bindVars, idVars, rawVars, refVars>>
notMerge == <<sessVars, wireVars, lsVars, multiVars, rxVars, codecVars, seqVars, bindVars, idVars, rawVars, refVars>>
notLs == <<sessVars, wireVars, mergeVars, multiVars, rxVars, codecVars, seqVars, bindVars, idVars, rawVars, refVars>>
notMulti == <<sessVars, wireVars, mergeVars, lsVars, rxVars, codecVars, seqVars, bindVars, idVars, rawVars, refVars>>
notRx == <<sessVars, wireVars, mergeVars, lsVars, multiVars, codecVars, seqVars, bindVars, idVars, rawVars, refVars>>
notCodec == <<sessVars, wireVars, mergeVars, lsVars, multiVars, rxVars, seqVars, bindVars, idVars, rawVars, refVars>>
notSeq == <<sessVars, wireVars, mergeVars, lsVars, multiVars, rxVars, codecVars, bindVars, idVars, rawVars, refVars>>
notBind == <<sessVars, wireVars, mergeVars, lsVars, multiVars, rxVars, codecVars, seqVars, idVars, rawVars, refVars>>
notId == <<sessVars, wireVars, mergeVars, lsVars, multiVars, rxVars, codecVars, seqVars, bindVars, rawVars, refVars>>
notRaw == <<sessVars, wireVars, mergeVars, lsVars, multiVars, rxVars, codecVars, seqVars, bindVars, idVars, refVars>>
notRef == <<sessVars, wireVars, mergeVars, lsVars, multiVars, rxVars, codecVars, seqVars, bindVars, idVars, rawVars>>
loopVars == <<pc, delay, sleep, timer, dials, binds, fails, cycle, statusClosed, statusCloses>>

Min(a, b) == IF a < b THEN a ELSE b

\* ------------------------------------------------------------- client.notify

\* A channel that hands out the newest event first.
notifyFront(ch, ev) == IF Len(ch) < StatusCap THEN <<ev>> \o ch ELSE ch

\* select { case c.Status <- ev: default: }
notify(ch, ev) == IF Len(ch) < StatusCap THEN Append(ch, ev) ELSE ch

\* --------------------------------------------------------------- client.Bind

\* delay*math.E
MulE(d) == (d * EMilli) \div 1000

\* delay = math.Min(delay*math.E, maxdelay)
NextDelay(d) == Min(MulE(d), maxdelay)

\* time.Duration(delay) * time.Second: the conversion of the float64 to the
\* integer type Duration drops the fraction.
SleepDuration(d) == (d \div 1000) * Second

\* c.closed()
closed == stop

\* for !c.closed() { ... : the loop is entered.
LoopEnter ==
    /\ pc = "loop"
    /\ ~closed
    /\ pc' = "dial"
    /\ UNCHANGED <<delay, sleep, timer, connOpen, Status, statusClosed, dials,
                   binds, notified, statusCloses, fails, cycle>>
    /\ UNCHANGED closeVars
    /\ UNCHANGED <<txVars, pending, connFirst>>
    /\ UNCHANGED obsVars
    /\ UNCHANGED kaVars
    /\ UNCHANGED extVars

\* A loop that closes c.Status when Close() was called and goes on.
LoopExitGoesOn ==
    /\ pc = "loop"
    /\ closed
    /\ ~statusClosed
    /\ pc' = "dial"
    /\ statusClosed' = TRUE
    /\ statusCloses' = statusCloses + 1
    /\ UNCHANGED <<delay, sleep, timer, connOpen, Status, dials, binds,
                   notified, fails, cycle>>
    /\ UNCHANGED closeVars
    /\ UNCHANGED <<txVars, pending, connFirst>>
    /\ UNCHANGED obsVars
    /\ UNCHANGED kaVars
    /\ UNCHANGED extVars

\* for !c.closed() is false: close(c.Status) and return.
LoopExit ==
    /\ pc = "loop"
    /\ closed
    /\ pc' = "done"
    /\ statusClosed' = TRUE
    /\ statusCloses' = statusCloses + 1
    /\ UNCHANGED <<delay, sleep, timer, connOpen, Status, dials, binds,
                   notified, fails, cycle>>
    /\ UNCHANGED closeVars
    /\ UNCHANGED <<txVars, pending, connFirst>>
    /\ UNCHANGED obsVars
    /\ UNCHANGED kaVars
    /\ UNCHANGED extVars

\* conn, err := Dial(c.Addr, c.TLS) with err != nil.
DialFail ==
    /\ pc = "dial"
    /\ dials' = dials + 1
    /\ Status' = notify(Status, "ConnectionFailed")
    /\ stamps' = notify(stamps, notified + 1)
    /\ notified' = notified + 1
    /\ UNCHANGED lastStamp
    /\ fails' = fails + 1
    /\ cycle' = "dial"
    /\ pc' = "retry"
    /\ UNCHANGED <<delay, sleep, timer, connOpen, statusClosed, binds, statusCloses>>
    /\ UNCHANGED closeVars
    /\ UNCHANGED <<txVars, pending, connFirst>>
    /\ UNCHANGED kaVars
    /\ UNCHANGED extVars

\* Dial succeeds; c.conn.Set(conn).
DialOk ==
    /\ pc = "dial"
    /\ dials' = dials + 1
    /\ connOpen' = TRUE
    /\ fails' = 0
    /\ pc' = "bind"
    /\ UNCHANGED <<delay, sleep, timer, Status, statusClosed, binds, notified,
                   statusCloses, cycle>>
    /\ UNCHANGED closeVars
    /\ UNCHANGED <<txVars, pending, connFirst>>
    /\ UNCHANGED obsVars
    /\ UNCHANGED kaVars
    /\ UNCHANGED extVars

\* A loop that gives up on a bind failure.
BindFailGivesUp ==
    /\ pc = "bind"
    /\ binds' = binds + 1
    /\ Status' = notify(Status, "BindFailed")
    /\ stamps' = notify(stamps, notified + 1)
    /\ notified' = notified + 1
    /\ UNCHANGED lastStamp
    /\ cycle' = "bind"
    /\ pc' = "done"
    /\ statusClosed' = TRUE
    /\ statusCloses' = statusCloses + 1
    /\ UNCHANGED <<delay, sleep, timer, connOpen, dials, fails>>
    /\ UNCHANGED closeVars
    /\ UNCHANGED <<txVars, pending, connFirst>>
    /\ UNCHANGED kaVars
    /\ UNCHANGED extVars

\* c.BindFunc(c.conn) returns an error (a bind response with a non-zero status,
\* or an I/O error).
BindFail ==
    /\ pc = "bind"
    /\ binds' = binds + 1
    /\ Status' = notify(Status, "BindFailed")
    /\ stamps' = notify(stamps, notified + 1)
    /\ notified' = notified + 1
    /\ UNCHANGED lastStamp
    /\ cycle' = "bind"
    /\ pc' = "retry"
    /\ UNCHANGED <<delay, sleep, timer, connOpen, statusClosed, dials,
                   statusCloses, fails>>
    /\ UNCHANGED closeVars
    /\ UNCHANGED <<txVars, pending, connFirst>>
    /\ UNCHANGED kaVars
    /\ UNCHANGED extVars

\* c.BindFunc(c.conn) succeeds: notify Connected, delay = 1; the time of the
\* last EnquireLinkResp starts at the bind and the enquireLink goroutine is
\* started.
BindOk ==
    /\ pc = "bind"
    /\ connOpen
    /\ binds' = binds + 1
    /\ Status' = notify(Status, "Connected")
    /\ stamps' = notify(stamps, notified + 1)
    /\ notified' = notified + 1
    /\ UNCHANGED lastStamp
    /\ delay' = InitialDelay
    /\ pc' = "read"
    /\ ka' = "on"
    /\ now' = 0
    /\ due' = FALSE
    /\ eliTime' = 0
    /\ lastRx' = 0
    /\ rxPaced' = TRUE
    /\ elOut' = FALSE
    /\ UNCHANGED <<sleep, timer, connOpen, statusClosed, dials, statusCloses,
                   fails, cycle>>
    /\ UNCHANGED closeVars
    /\ UNCHANGED <<txVars, pending, connFirst>>
    /\ UNCHANGED extVars

\* A read loop that drops every registered waiter when Read fails.
ReadErrDropsWaiters ==
    /\ pc = "read"
    /\ Status' = notify(Status, "Disconnected")
    /\ stamps' = notify(stamps, notified + 1)
    /\ notified' = notified + 1
    /\ cycle' = "lost"
    /\ pc' = "retry"
    /\ inflight' = <<>>
    /\ UNCHANGED <<seq, wpc, wseq, slot, outcome, respSeq, pending, connFirst, lastStamp>>
    /\ UNCHANGED <<delay, sleep, timer, connOpen, statusClosed, dials, binds,
                   statusCloses, fails>>
    /\ UNCHANGED closeVars
    /\ UNCHANGED kaVars
    /\ UNCHANGED <<slotStatus, respStatus, rxNacks>>
    /\ UNCHANGED WindowSize
    /\ UNCHANGED extVars

\* c.conn.Read() returns an error: notify Disconnected, break; the
\* enquireLink goroutine of the connection is stopped.
ReadErr ==
    /\ pc = "read"
    /\ Status' = notify(Status, "Disconnected")
    /\ stamps' = notify(stamps, notified + 1)
    /\ notified' = notified + 1
    /\ UNCHANGED lastStamp
    /\ cycle' = "lost"
    /\ pc' = "retry"
    /\ ka' = "off"
    /\ now' = 0
    /\ due' = FALSE
    /\ eliTime' = 0
    /\ lastRx' = 0
    /\ rxPaced' = TRUE
    /\ elOut' = FALSE
    /\ UNCHANGED <<delay, sleep, timer, connOpen, statusClosed, dials, binds,
                   statusCloses, fails>>
    /\ UNCHANGED closeVars
    /\ UNCHANGED <<txVars, pending, connFirst>>
    /\ UNCHANGED extVars

\* retry: c.conn.Close(); delay = math.Min(delay*math.E, maxdelay);
\* c.trysleep(time.Duration(delay) * time.Second) is called.
Retry ==
    /\ pc = "retry"
    /\ connOpen' = FALSE
    /\ delay' = NextDelay(delay)
    /\ sleep' = SleepDuration(NextDelay(delay))
    /\ timer' = "armed"
    /\ pc' = "sleep"
    /\ pending' = {}
    /\ connFirst' = 0
    /\ UNCHANGED <<Status, statusClosed, dials, binds, notified, statusCloses,
                   fails, cycle>>
    /\ UNCHANGED closeVars
    /\ UNCHANGED txVars
    /\ UNCHANGED obsVars
    /\ UNCHANGED kaVars
    /\ UNCHANGED extVars

\* ----------------------------------------------------------- client.trysleep

\* The timer of time.After(d) fires.
TimerFire ==
    /\ timer = "armed"
    /\ timer' = "fired"
    /\ UNCHANGED <<pc, delay, sleep, connOpen, Status, statusClosed, dials,
                   binds, notified, statusCloses, fails, cycle>>
    /\ UNCHANGED closeVars
    /\ UNCHANGED <<txVars, pending, connFirst>>
    /\ UNCHANGED obsVars
    /\ UNCHANGED kaVars
    /\ UNCHANGED extVars

\* time.Sleep(d): a sleep that c.stop does not end.
trysleepUninterruptible == timer = "fired"

\* select { case <-time.After(d): case <-c.stop: }
trysleepReady == timer = "fired" \/ stop

TrySleepReturn ==
    /\ pc = "sleep"
    /\ trysleepReady
    /\ pc' = "loop"
    /\ UNCHANGED <<delay, sleep, timer, connOpen, Status, statusClosed, dials, binds,
                   notified, statusCloses, fails, cycle>>
    /\ UNCHANGED closeVars
    /\ UNCHANGED <<txVars, pending, connFirst>>
    /\ UNCHANGED obsVars
    /\ UNCHANGED kaVars
    /\ UNCHANGED extVars

\* -------------------------------------------------------------- client.Close

\* Close without c.once: every caller runs f.
OnceEnterAlways(o) == TRUE

\* c.once.Do(f): the first caller runs f, a caller that arrives while f runs
\* waits for it, a later caller returns at once.
OnceEnter(o) == o = "idle"

CloseCall(k) ==
    /\ cpc[k] = "idle"
    /\ IF OnceEnter(once)
         THEN /\ once' = "running"
              /\ cpc' = [cpc EXCEPT ![k] = "stop"]
         ELSE /\ once' = once
              /\ cpc' = [cpc EXCEPT ![k] = IF once = "done" THEN "returned" ELSE "blocked"]
    /\ UNCHANGED <<stop, unbinds, stopCloses>>
    /\ UNCHANGED loopVars
    /\ UNCHANGED <<connOpen, Status, notified>>
    /\ UNCHANGED <<txVars, pending, connFirst>>
    /\ UNCHANGED obsVars
    /\ UNCHANGED kaVars
    /\ UNCHANGED extVars

\* close(c.stop)
CloseStop(k) ==
    /\ cpc[k] = "stop"
    /\ stop' = TRUE
    /\ stopCloses' = stopCloses + 1
    /\ cpc' = [cpc EXCEPT ![k] = "unbind"]
    /\ UNCHANGED <<once, unbinds>>
    /\ UNCHANGED loopVars
    /\ UNCHANGED <<connOpen, Status, notified>>
    /\ UNCHANGED <<txVars, pending, connFirst>>
    /\ UNCHANGED obsVars
    /\ UNCHANGED kaVars
    /\ UNCHANGED extVars

\* Send unbind: the PDU goes out when the connection is open.
CloseUnbind(k) ==
    /\ cpc[k] = "unbind"
    /\ unbinds' = IF connOpen THEN unbinds + 1 ELSE unbinds
    /\ cpc' = [cpc EXCEPT ![k] = "wait"]
    /\ UNCHANGED <<stop, once, stopCloses>>
    /\ UNCHANGED loopVars
    /\ UNCHANGED <<connOpen, Status, notified>>
    /\ UNCHANGED <<txVars, pending, connFirst>>
    /\ UNCHANGED obsVars
    /\ UNCHANGED kaVars
    /\ UNCHANGED extVars

\* wait briefly (for the UnbindResp, at most 1 s), close connection; f returns.
CloseConn(k) ==
    /\ cpc[k] = "wait"
    /\ connOpen' = FALSE
    /\ once' = "done"
    /\ cpc' = [cpc EXCEPT ![k] = "returned"]
    /\ UNCHANGED <<stop, unbinds, stopCloses>>
    /\ UNCHANGED loopVars
    /\ UNCHANGED <<Status, notified>>
    /\ UNCHANGED txVars
    /\ pending' = {}
    /\ connFirst' = 0
    /\ UNCHANGED obsVars
    /\ UNCHANGED kaVars
    /\ UNCHANGED extVars

\* once.Do returns for a caller that waited for f.
CloseUnblock(k) ==
    /\ cpc[k] = "blocked"
    /\ once = "done"
    /\ cpc' = [cpc EXCEPT ![k] = "returned"]
    /\ UNCHANGED <<stop, once, unbinds, stopCloses>>
    /\ UNCHANGED loopVars
    /\ UNCHANGED <<connOpen, Status, notified>>
    /\ UNCHANGED <<txVars, pending, connFirst>>
    /\ UNCHANGED obsVars
    /\ UNCHANGED kaVars
    /\ UNCHANGED extVars

\* --------------------------------------------------------- factory.NewSeq

\* A factory that hands out the counter without advancing it.
NewSeqNoAdd(s) == IF s = 0 THEN 1 ELSE s

\* atomic.AddUint32(&f.seq, 1)
NewSeq(s) == s + 1

\* atomic.AddUint32 on the halves: addition modulo 2^32 (delta < 2^16).
AddUint32(u, delta) ==
    IF u[2] + delta < Word THEN <<u[1], u[2] + delta>>
    ELSE <<(u[1] + 1) % Word, (u[2] + delta) % Word>>

\* factory.NewSeq on the real width: atomic.AddUint32(&f.seq, 1)
NewSeq32(u) == AddUint32(u, 1)

\* A goroutine calls f.NewSeq(): one atomic step that adds 1 to the counter
\* and returns the new value.
TakeSeq(g) ==
    /\ Len(handed) < MaxTaken
    /\ fseq' = NewSeq32(fseq)
    /\ handed' = Append(handed, fseq')
    /\ taker' = Append(taker, g)
    /\ UNCHANGED notSeq

\* ------------------------------------------------- Transmitter: Submit/Query

\* A Submit that does not look at the state of the session.
boundAlways == TRUE

\* The session is bound: Connected was notified and the read loop runs.
bound == pc = "read"

\* If WindowSize > 0, check the limit of concurrent requests: the window is
\* full when the inflight map holds WindowSize entries.
WindowFull(table, size) == size > 0 /\ Cardinality(DOMAIN table) >= size

\* Submit is called: check that the session is bound, check the window
\* (ErrMaxWindowSize when it is full) and build the PDU, whose header takes
\* the next sequence number.  The channel is registered in a later step.
SubmitBegin(w) ==
    /\ wpc[w] = "idle"
    /\ IF ~bound
         THEN /\ outcome' = [outcome EXCEPT ![w] = "NotConnected"]
              /\ wpc' = [wpc EXCEPT ![w] = "done"]
              /\ UNCHANGED <<seq, wseq>>
         ELSE IF WindowFull(inflight, WindowSize)
         THEN /\ outcome' = [outcome EXCEPT ![w] = "MaxWindowSize"]
              /\ wpc' = [wpc EXCEPT ![w] = "done"]
              /\ UNCHANGED <<seq, wseq>>
         ELSE /\ seq' = NewSeq(seq)
              /\ wseq' = [wseq EXCEPT ![w] = NewSeq(seq)]
              /\ wpc' = [wpc EXCEPT ![w] = "register"]
              /\ outcome' = outcome
    /\ UNCHANGED <<inflight, slot, respSeq, pending, connFirst, connOpen, Status, notified>>
    /\ UNCHANGED loopVars
    /\ UNCHANGED closeVars
    /\ UNCHANGED obsVars
    /\ UNCHANGED kaVars
    /\ UNCHANGED <<slotStatus, respStatus, rxNacks>>
    /\ UNCHANGED WindowSize
    /\ UNCHANGED extVars

\* seq := p.Header().Seq; rc := make(chan *tx, 1); inflight[seq] = rc
SubmitRegister(w) ==
    /\ wpc[w] = "register"
    /\ inflight' = (wseq[w] :> w) @@ inflight
    /\ wpc' = [wpc EXCEPT ![w] = "write"]
    /\ UNCHANGED <<seq, wseq, slot, outcome, respSeq, pending, connFirst, connOpen, Status, notified>>
    /\ UNCHANGED loopVars
    /\ UNCHANGED closeVars
    /\ UNCHANGED obsVars
    /\ UNCHANGED kaVars
    /\ UNCHANGED <<slotStatus, respStatus, rxNacks>>
    /\ UNCHANGED WindowSize
    /\ UNCHANGED extVars

\* The first request written on a connection: s when none was written yet.
FirstWritten(first, s) == IF first = 0 THEN s ELSE first

\* A Submit that returns the error of conn.Write.
SubmitWriteChecked(w) ==
    /\ wpc[w] = "write"
    /\ IF connOpen
         THEN /\ pending' = pending \cup {wseq[w]}
              /\ connFirst' = FirstWritten(connFirst, wseq[w])
              /\ wpc' = [wpc EXCEPT ![w] = "wait"]
              /\ outcome' = outcome
         ELSE /\ pending' = pending
              /\ connFirst' = connFirst
              /\ wpc' = [wpc EXCEPT ![w] = "done"]
              /\ outcome' = [outcome EXCEPT ![w] = "WriteError"]
    /\ UNCHANGED <<seq, wseq, inflight, slot, respSeq, connOpen, Status, notified>>
    /\ UNCHANGED loopVars
    /\ UNCHANGED closeVars
    /\ UNCHANGED obsVars
    /\ UNCHANGED kaVars
    /\ UNCHANGED <<slotStatus, respStatus, rxNacks>>
    /\ UNCHANGED WindowSize
    /\ UNCHANGED extVars

\* conn.Write(p): the request reaches the SMSC when the connection is open;
\* the result of Write is not looked at.
SubmitWrite(w) ==
    /\ wpc[w] = "write"
    /\ pending' = IF connOpen THEN pending \cup {wseq[w]} ELSE pending
    /\ connFirst' = IF connOpen THEN FirstWritten(connFirst, wseq[w]) ELSE connFirst
    /\ wpc' = [wpc EXCEPT ![w] = "wait"]
    /\ UNCHANGED <<seq, wseq, inflight, slot, outcome, respSeq, connOpen, Status, notified>>
    /\ UNCHANGED loopVars
    /\ UNCHANGED closeVars
    /\ UNCHANGED obsVars
    /\ UNCHANGED kaVars
    /\ UNCHANGED <<slotStatus, respStatus, rxNacks>>
    /\ UNCHANGED WindowSize
    /\ UNCHANGED extVars

\* A Submit that hands back every response as a success.
StatusErrIgnored(st) == "resp"

\* What Submit returns for a response: the response when its status is
\* ESME_ROK, else the status as the error (err.(pdu.Status)).
StatusErr(st) == IF st = ESME_ROK THEN "resp" ELSE "Protocol"

\* select { case resp := <-rc: return resp, nil ...
SubmitRecv(w) ==
    /\ wpc[w] = "wait"
    /\ slot[w] # 0
    /\ outcome' = [outcome EXCEPT ![w] = StatusErr(slotStatus[w])]
    /\ respSeq' = [respSeq EXCEPT ![w] = slot[w]]
    /\ respStatus' = [respStatus EXCEPT ![w] = slotStatus[w]]
    /\ slot' = [slot EXCEPT ![w] = 0]
    /\ slotStatus' = [slotStatus EXCEPT ![w] = ESME_ROK]
    /\ rxNacks' = rxNacks
    /\ wpc' = [wpc EXCEPT ![w] = "done"]
    /\ UNCHANGED <<seq, wseq, inflight, pending, connFirst, connOpen, Status, notified>>
    /\ UNCHANGED loopVars
    /\ UNCHANGED closeVars
    /\ UNCHANGED obsVars
    /\ UNCHANGED kaVars
    /\ UNCHANGED WindowSize
    /\ UNCHANGED extVars

\* A Submit that waits on rc alone.
SubmitNoTimeout(w) ==
    /\ FALSE
    /\ UNCHANGED vars

\* A select that takes the timer's case though rc holds the response.
SubmitTimeoutAnyway(w) ==
    /\ wpc[w] = "wait"
    /\ outcome' = [outcome EXCEPT ![w] = "Timeout"]
    /\ wpc' = [wpc EXCEPT ![w] = "done"]
    /\ UNCHANGED <<seq, wseq, inflight, slot, respSeq, pending, connFirst, connOpen, Status, notified>>
    /\ UNCHANGED loopVars
    /\ UNCHANGED closeVars
    /\ UNCHANGED obsVars
    /\ UNCHANGED kaVars
    /\ UNCHANGED <<slotStatus, respStatus, rxNacks>>
    /\ UNCHANGED WindowSize
    /\ UNCHANGED extVars

\* ... case <-time.After(t.RespTimeout): return nil, ErrTimeout }
\* The timer is made when the select is entered, after Write returned, and
\* rc is buffered: a response sent to rc before the timer fires is taken by
\* the select, on entry or when it wakes the waiting goroutine, so that the
\* timer's case is taken only while rc is empty.
SubmitTimeout(w) ==
    /\ wpc[w] = "wait"
    /\ slot[w] = 0
    /\ outcome' = [outcome EXCEPT ![w] = "Timeout"]
    /\ wpc' = [wpc EXCEPT ![w] = "done"]
    /\ UNCHANGED <<seq, wseq, inflight, slot, respSeq, pending, connFirst, connOpen, Status, notified>>
    /\ UNCHANGED loopVars
    /\ UNCHANGED closeVars
    /\ UNCHANGED obsVars
    /\ UNCHANGED kaVars
    /\ UNCHANGED <<slotStatus, respStatus, rxNacks>>
    /\ UNCHANGED WindowSize
    /\ UNCHANGED extVars

\* --------------------------------------------------- the reader's dispatch

\* A dispatch that hands the response to the oldest registered channel.
LookupOldest(table, s) ==
    table[CHOOSE k \in DOMAIN table : \A j \in DOMAIN table : k <= j]

\* inflight[resp.Header().Seq]
Lookup(table, s) == table[s]

\* delete(inflight, resp.Header().Seq)
Delete(table, s) == [k \in (DOMAIN table) \ {s} |-> table[k]]

\* p, err := c.conn.Read() returns the response with sequence number s, which
\* the SMSC sends for a request it received, in any order:
\* if ch, ok := inflight[s]; ok { ch <- resp; delete(inflight, s) }
ReadPDU(s) ==
    /\ pc = "read"
    /\ connOpen
    /\ s \in pending
    /\ pending' = pending \ {s}
    /\ UNCHANGED connFirst
    /\ IF s \in DOMAIN inflight
         THEN /\ slot[Lookup(inflight, s)] = 0
              /\ slot' = [slot EXCEPT ![Lookup(inflight, s)] = s]
              /\ slotStatus' = [slotStatus EXCEPT ![Lookup(inflight, s)] = ESME_ROK]
              /\ inflight' = Delete(inflight, s)
         ELSE UNCHANGED <<slot, slotStatus, inflight>>
    /\ UNCHANGED <<respStatus, rxNacks>>
    /\ UNCHANGED <<seq, wpc, wseq, outcome, respSeq, connOpen, Status, notified>>
    /\ UNCHANGED loopVars
    /\ UNCHANGED closeVars
    /\ UNCHANGED obsVars
    /\ UNCHANGED kaVars
    /\ UNCHANGED WindowSize
    /\ UNCHANGED extVars

\* The SMSC sends a GenericNACK with sequence number s and status
\* ESME_RTHROTTLED: the dispatch looks at the sequence number alone, so the
\* PDU goes to the channel registered under s, and to nobody when none is.
ReadGenericNack(s) ==
    /\ pc = "read"
    /\ connOpen
    /\ rxNacks < MaxNacks
    /\ rxNacks' = rxNacks + 1
    /\ pending' = pending \ {s}
    /\ UNCHANGED connFirst
    /\ IF s \in DOMAIN inflight
         THEN /\ slot[Lookup(inflight, s)] = 0
              /\ slot' = [slot EXCEPT ![Lookup(inflight, s)] = s]
              /\ slotStatus' = [slotStatus EXCEPT ![Lookup(inflight, s)] = ESME_RTHROTTLED]
              /\ inflight' = Delete(inflight, s)
         ELSE UNCHANGED <<slot, slotStatus, inflight>>
    /\ UNCHANGED <<seq, wpc, wseq, outcome, respSeq, respStatus>>
    /\ UNCHANGED <<connOpen, Status, notified>>
    /\ UNCHANGED <<loopVars, closeVars, obsVars, kaVars>>
    /\ UNCHANGED WindowSize
    /\ UNCHANGED extVars

\* ------------------------------------------------- consumer of the channel

\* status := <-conn
StatusRecv ==
    /\ Len(Status) > 0
    /\ Status' = Tail(Status)
    /\ stamps' = Tail(stamps)
    /\ lastStamp' = Head(stamps)
    /\ UNCHANGED <<connOpen, notified>>
    /\ UNCHANGED loopVars
    /\ UNCHANGED closeVars
    /\ UNCHANGED <<txVars, pending, connFirst>>
    /\ UNCHANGED kaVars
    /\ UNCHANGED extVars

\* ------------------------------------------------------ client.enquireLink

\* Time passes on a bound connection, up to the next tick of the enquireLink
\* goroutine; the goroutine runs at its tick.
ClockTick ==
    /\ pc = "read"
    /\ connOpen
    /\ ka = "on"
    /\ ~due
    /\ now < KaMaxTime
    /\ now' = now + 1
    /\ due' = ((now + 1) % EnquireLinkPeriod = 0)
    /\ UNCHANGED <<ka, eliTime, lastRx, rxPaced, elOut>>
    /\ UNCHANGED <<connOpen, Status, notified, pending, connFirst>>
    /\ UNCHANGED <<loopVars, closeVars, txVars, obsVars>>
    /\ UNCHANGED extVars

\* A keepalive that only sends EnquireLink.
EnquireLinkNeverTimedOut(e, n) == FALSE

\* time.Since(c.eliTime) >= c.EnquireLinkTimeout
EnquireLinkTimedOut(e, n) == n - e >= EnquireLinkTimeout

\* Every EnquireLink interval: if the last EnquireLinkResp is too old,
\* c.conn.Close() and return; otherwise send an EnquireLink PDU.
EnquireLinkTick ==
    /\ ka = "on"
    /\ due
    /\ due' = FALSE
    /\ IF EnquireLinkTimedOut(eliTime, now)
         THEN /\ connOpen' = FALSE
              /\ pending' = {}
              /\ connFirst' = 0
              /\ ka' = "off"
              /\ elOut' = FALSE
         ELSE /\ elOut' = connOpen
              /\ UNCHANGED <<connOpen, pending, connFirst, ka>>
    /\ UNCHANGED <<now, eliTime, lastRx, rxPaced>>
    /\ UNCHANGED <<Status, notified>>
    /\ UNCHANGED <<loopVars, closeVars, txVars, obsVars>>
    /\ UNCHANGED extVars

\* The peer's PDU read at time t came less than EnquireLinkTimeout after the
\* one before it.
Paced(paced, last, t) == paced /\ t - last < EnquireLinkTimeout

\* The read loop reads an EnquireLinkResp: update the timestamp.
ReadEnquireLinkResp ==
    /\ pc = "read"
    /\ connOpen
    /\ elOut
    /\ elOut' = FALSE
    /\ eliTime' = now
    /\ lastRx' = now
    /\ rxPaced' = Paced(rxPaced, lastRx, now)
    /\ UNCHANGED <<ka, now, due>>
    /\ UNCHANGED <<connOpen, Status, notified, pending, connFirst>>
    /\ UNCHANGED <<loopVars, closeVars, txVars, obsVars>>
    /\ UNCHANGED extVars

\* The read loop reads any other PDU of the peer (its EnquireLink, a
\* DeliverSM): it is routed to its handler and the timestamp stays.
ReadOther ==
    /\ pc = "read"
    /\ connOpen
    /\ lastRx # now
    /\ lastRx' = now
    /\ rxPaced' = Paced(rxPaced, lastRx, now)
    /\ UNCHANGED <<ka, now, due, eliTime, elOut>>
    /\ UNCHANGED <<connOpen, Status, notified, pending, connFirst>>
    /\ UNCHANGED <<loopVars, closeVars, txVars, obsVars>>
    /\ UNCHANGED extVars

\* ------------------------------------------------------------ the write path

\* A write path without a serialization point.
WritePathFreeAlways == TRUE

\* The single serialization point of all writes (a mutex, or the head of a
\* queue): it is free when no writer is inside it.
WritePathFree == \A j \in Writers : wstate[j] # "writing"

\* A writer enters the write path with its PDU.
WriteBegin(i) ==
    /\ wstate[i] = "idle"
    /\ WritePathFree
    /\ wstate' = [wstate EXCEPT ![i] = "writing"]
    /\ UNCHANGED <<wbytes, wire>>
    /\ UNCHANGED notWire

\* The next byte of the writer's PDU goes to the socket.
WriteByte(i) ==
    /\ wstate[i] = "writing"
    /\ wbytes[i] < PduLen
    /\ wbytes' = [wbytes EXCEPT ![i] = wbytes[i] + 1]
    /\ wire' = Append(wire, <<i, wbytes[i] + 1>>)
    /\ UNCHANGED wstate
    /\ UNCHANGED notWire

\* The PDU is written: the writer leaves the write path.
WriteEnd(i) ==
    /\ wstate[i] = "writing"
    /\ wbytes[i] = PduLen
    /\ wstate' = [wstate EXCEPT ![i] = "done"]
    /\ UNCHANGED <<wbytes, wire>>
    /\ UNCHANGED notWire

\* ------------------------------------------------------------ long messages

\* bytes.Join(ordered, nil) over ordered[k..n-1].
RECURSIVE Join(_, _, _)
Join(ordered, k, n) ==
    IF k >= n THEN <<>> ELSE ordered[k] \o Join(ordered, k + 1, n)

\* A splitter that drops the last, shorter piece.
splitMessageWhole(text, size) ==
    [i \in 1..(Len(text) \div size) |->
        SubSeq(text, (i - 1) * size + 1, i * size)]

\* splitMessage(text, size): the text cut into consecutive pieces of at most
\* size bytes.
splitMessage(text, size) ==
    [i \in 1..((Len(text) + size - 1) \div size) |->
        SubSeq(text, (i - 1) * size + 1, Min(i * size, Len(text)))]

\* The concatenation header of part i of the message refNum: IEI, IEDL,
\* reference number, total parts, current part (1-indexed).
ConcatUDH(refNum, total, i) == <<0, 3, refNum, total % 256, i % 256>>

\* The parts of a long text, each as the short_message field of its SubmitSM:
\* the length of the header, the header, the piece of text.
SubmitLongMsg(text, refNum) ==
    LET parts == splitMessage(text, PartSize)
    IN  [i \in 1..Len(parts) |->
            <<5>> \o ConcatUDH(refNum, Len(parts), i) \o parts[i]]

\* UDH detection: udhLen := msg[0]; udh := msg[1 : 1+udhLen];
\* payload := msg[1+udhLen:].
UdhOf(m) == SubSeq(m, 2, 1 + m[1])
PayloadOf(m) == SubSeq(m, 2 + m[1], Len(m))

\* A reassembler that concatenates the parts from the last to the first.
assemblePartsReversed(msg) ==
    LET ordered == [k \in 0..(msg.total - 1) |->
                        IF (msg.total - k) \in DOMAIN msg.parts
                        THEN msg.parts[msg.total - k] ELSE <<>>]
    IN  Join(ordered, 0, msg.total)

\* Receiver.assembleParts: ordered[partNum-1] = payload for each part, then
\* the pieces joined in the order of the array.
assembleParts(msg) ==
    LET ordered == [k \in 0..(msg.total - 1) |->
                        IF (k + 1) \in DOMAIN msg.parts
                        THEN msg.parts[k + 1] ELSE <<>>]
    IN  Join(ordered, 0, msg.total)

\* m[k] = v, in a map m.
Put(m, k, v) == [x \in DOMAIN m \cup {k} |-> IF x = k THEN v ELSE m[x]]

\* Receiver.bufferPart: the bucket of refNum is created on its first part,
\* with no total and the time of that part, and the payload is stored under
\* its part number.
bufferPart(table, refNum, partNum, payload, t) ==
    LET msg == IF refNum \in DOMAIN table
               THEN table[refNum]
               ELSE [refNum |-> refNum, total |-> 0, parts |-> <<>>,
                     receivedAt |-> t]
    IN  Put(table, refNum, [msg EXCEPT !.parts = Put(msg.parts, partNum, payload)])

\* The total of the UDH is recorded in the bucket if it has none.
setTotal(table, refNum, totalParts) ==
    IF table[refNum].total = 0
    THEN [table EXCEPT ![refNum].total = totalParts]
    ELSE table

\* The buckets the merge ticker finds complete.
Complete(table) ==
    {r \in DOMAIN table : Cardinality(DOMAIN table[r].parts) = table[r].total}

\* The payloads of the complete buckets, by ascending reference number.
RECURSIVE Assembled(_, _)
Assembled(table, refs) ==
    IF refs = {} THEN <<>>
    ELSE LET r == CHOOSE x \in refs : \A y \in refs : x <= y
         IN  <<assembleParts(table[r])>> \o Assembled(table, refs \ {r})

\* A DeliverSM with a UDH reaches the Receiver: part i of the long message.
\* Its header is parsed and its payload buffered.
ReceivePart(i) ==
    /\ i \in DOMAIN segments
    /\ \A k \in DOMAIN fed : fed[k] # i
    /\ LET udh == UdhOf(segments[i])
           payload == PayloadOf(segments[i])
       IN  /\ udh[1] = 0
           /\ multipartMessages' =
                  setTotal(bufferPart(multipartMessages, udh[3], udh[5], payload, mnow),
                           udh[3], udh[4])
    /\ fed' = Append(fed, i)
    /\ arrivedAt' = Append(arrivedAt, mnow)
    /\ UNCHANGED <<longMsg, segments, handled, tickVars>>
    /\ UNCHANGED notMerge

\* The body of case <-ticker.C: every bucket that has all its parts is
\* assembled, passed to the Handler and deleted.
MergeCheck ==
    /\ handled' = handled \o Assembled(multipartMessages, Complete(multipartMessages))
    /\ multipartMessages' =
           [r \in DOMAIN multipartMessages \ Complete(multipartMessages) |->
               multipartMessages[r]]

\* mergeLongMessages, case <-ticker.C, at a tick that finds a complete bucket.
MergeTick ==
    /\ Complete(multipartMessages) # {}
    /\ MergeCheck
    /\ UNCHANGED <<longMsg, segments, fed, arrivedAt, tickVars>>
    /\ UNCHANGED notMerge

\* Time passes when no tick waits to be handled: the merge ticker fires every
\* MergeInterval, the cleanup ticker every MergeCleanupInterval.
MergeClock ==
    /\ mnow < MaxMergeTime
    /\ ~mergeDue
    /\ ~cleanupDue
    /\ mnow' = mnow + 1
    /\ mergeDue' = ((mnow + 1) % MergeInterval = 0)
    /\ cleanupDue' = ((mnow + 1) % MergeCleanupInterval = 0)
    /\ UNCHANGED <<longMsg, segments, fed, arrivedAt, multipartMessages, handled>>
    /\ UNCHANGED notMerge

\* mergeLongMessages, case <-ticker.C.
MergeTicker ==
    /\ mergeDue
    /\ mergeDue' = FALSE
    /\ MergeCheck
    /\ UNCHANGED <<longMsg, segments, fed, arrivedAt, mnow, cleanupDue>>
    /\ UNCHANGED notMerge

\* A sweep that discards nothing.
StaleNever(t, receivedAt) == FALSE

\* now.Sub(msg.receivedAt) > r.MergeCleanupInterval
Stale(t, receivedAt) == t - receivedAt > MergeCleanupInterval

\* mergeLongMessages, case <-cleanup.C: every bucket older than
\* MergeCleanupInterval is deleted.
CleanupTicker ==
    /\ cleanupDue
    /\ cleanupDue' = FALSE
    /\ multipartMessages' =
           [r \in {x \in DOMAIN multipartMessages :
                       ~Stale(mnow, multipartMessages[x].receivedAt)} |->
               multipartMessages[r]]
    /\ UNCHANGED <<longMsg, segments, fed, arrivedAt, handled, mnow, mergeDue>>
    /\ UNCHANGED notMerge

\* ---------------------------------------------------------- SubmitLongMsg

\* esm_class |= 0x40
SetUDHI(esm) == IF (esm \div UDHI) % 2 = 1 THEN esm ELSE esm + UDHI

\* The SubmitSM of part i of the call.
LongPart(i) ==
    [esm_class |-> SetUDHI(lsEsm),
     short_message |-> SubmitLongMsg(lsText, lsRef)[i]]

\* if totalParts > 255: too many message parts
TooManyParts(totalParts) == totalParts > MaxParts

\* SubmitLongMsg is called: the text is split and the number of parts
\* validated.
SubmitLongBegin ==
    /\ lsPc = "idle"
    /\ lsText # <<>>
    /\ IF TooManyParts(Len(splitMessage(lsText, PartSize)))
       THEN lsPc' = "returned" /\ lsErr' = "TooManyParts"
       ELSE lsPc' = "sending" /\ lsErr' = "none"
    /\ UNCHANGED <<lsText, lsEsm, lsRef, lsSent, lsResps>>
    /\ UNCHANGED notLs

\* err != nil after the Submit of a part
PartFailed(res) == res # "resp"

\* A loop over the parts that goes on after a part has failed.
OnPartErrorContinue == "sending"

\* Where the call goes when a part has failed: it returns.
OnPartError == "returned"

\* The next part is submitted and the call waits for its outcome: a
\* response, which is collected, or an error, which ends the call.
SubmitLongPart(res) ==
    /\ lsPc = "sending"
    /\ Len(lsSent) < Len(splitMessage(lsText, PartSize))
    /\ lsSent' = Append(lsSent, LongPart(Len(lsSent) + 1))
    /\ IF PartFailed(res)
       THEN /\ lsErr' = IF lsErr = "none" THEN res ELSE lsErr
            /\ lsPc' = OnPartError
            /\ UNCHANGED lsResps
       ELSE /\ lsResps' = Append(lsResps, Len(lsSent) + 1)
            /\ UNCHANGED <<lsErr, lsPc>>
    /\ UNCHANGED <<lsText, lsEsm, lsRef>>
    /\ UNCHANGED notLs

\* All parts are submitted: the call returns the responses.
SubmitLongReturn ==
    /\ lsPc = "sending"
    /\ Len(lsSent) = Len(splitMessage(lsText, PartSize))
    /\ lsPc' = "returned"
    /\ UNCHANGED <<lsText, lsEsm, lsRef, lsSent, lsResps, lsErr>>
    /\ UNCHANGED notLs

\* ------------------------------------------------- sessions of one process

\* One factory shared by all the sessions of the process.
FactoryShared(i) == 1

\* Each session creates its own factory: the factory of session i.
FactoryOf(i) == i

\* The parts of the long message both sessions receive, with the same
\* reference number.
SessParts == SubmitLongMsg(Filler(PartSize + 1), 0)

\* A request is submitted on session i: it takes its sequence number from
\* the session's factory and stores its channel in the session's inflight
\* map.
SessSubmit(i) ==
    /\ ~sClosed[i]
    /\ factories[FactoryOf(i)] < MaxSessSeq
    /\ factories' = [factories EXCEPT ![FactoryOf(i)] = NewSeq(@)]
    /\ sInflight' = [sInflight EXCEPT ![i] = (NewSeq(factories[FactoryOf(i)]) :> 1) @@ @]
    /\ actor' = i
    /\ UNCHANGED <<sTable, sStatus, sClosed>>
    /\ UNCHANGED notMulti

\* The response to request s is read on session i.
SessResponse(i, s) ==
    /\ ~sClosed[i]
    /\ s \in DOMAIN sInflight[i]
    /\ sInflight' = [sInflight EXCEPT ![i] = Delete(@, s)]
    /\ actor' = i
    /\ UNCHANGED <<factories, sTable, sStatus, sClosed>>
    /\ UNCHANGED notMulti

\* Session i loses its connection (Disconnected) or binds again (Connected).
SessReconnect(i) ==
    /\ ~sClosed[i]
    /\ Len(sStatus[i]) < 2 * MaxSessLosses
    /\ sStatus' = [sStatus EXCEPT ![i] =
                      notify(@, IF Len(@) % 2 = 0 THEN "Disconnected" ELSE "Connected")]
    /\ actor' = i
    /\ UNCHANGED <<factories, sInflight, sTable, sClosed>>
    /\ UNCHANGED notMulti

\* Part k of the long message reaches the Receiver of session i.
SessPart(i, k) ==
    /\ ~sClosed[i]
    /\ LET udh == UdhOf(SessParts[k])
       IN  /\ IF udh[3] \in DOMAIN sTable[i]
              THEN udh[5] \notin DOMAIN sTable[i][udh[3]].parts
              ELSE TRUE
           /\ sTable' = [sTable EXCEPT ![i] =
                  setTotal(bufferPart(@, udh[3], udh[5], PayloadOf(SessParts[k]), 0),
                           udh[3], udh[4])]
    /\ actor' = i
    /\ UNCHANGED <<factories, sInflight, sStatus, sClosed>>
    /\ UNCHANGED notMulti

\* Session i is closed.
SessClose(i) ==
    /\ ~sClosed[i]
    /\ sClosed' = [sClosed EXCEPT ![i] = TRUE]
    /\ actor' = i
    /\ UNCHANGED <<factories, sInflight, sTable, sStatus>>
    /\ UNCHANGED notMulti

\* ------------------------------------------------- Receiver: the read loop

\* The PDUs the SMSC may send: an EnquireLink, a DeliverSM with a short
\* text, or one of the two parts of a long message.
InboundPDUs ==
    {[id |-> "EnquireLink", seq |-> s, esm_class |-> 0, short_message |-> <<>>] :
        s \in InSeqs}
    \cup {[id |-> "DeliverSM", seq |-> s, esm_class |-> 0, short_message |-> <<65>>] :
        s \in InSeqs}
    \cup {[id |-> "DeliverSM", seq |-> s, esm_class |-> UDHI,
           short_message |-> SessParts[k]] : s \in InSeqs, k \in DOMAIN SessParts}

\* NewEnquireLinkRespSeq(seq): Header{ID: EnquireLinkRespID, Seq: seq}.
NewEnquireLinkRespSeq(s) == [id |-> "EnquireLinkResp", seq |-> s, status |-> 0]

\* NewDeliverSMResp(): a response that does not take the sequence number of
\* the request.
NewDeliverSMRespNoSeq(s) == [id |-> "DeliverSMResp", seq |-> 0, status |-> 0]

\* NewDeliverSMRespSeq(seq): Header{ID: DeliverSMRespID, Seq: seq}.
NewDeliverSMRespSeq(s) == [id |-> "DeliverSMResp", seq |-> s, status |-> 0]

\* The PDU the read loop is working on.
rxCur == rxLog[Len(rxLog)]

\* esmClass&0x40 != 0
HasUDH(p) == (p.esm_class \div UDHI) % 2 = 1

\* The read loop reads the next PDU from the connection.
RxRead(p) ==
    /\ rxPc = "read"
    /\ Len(rxLog) < MaxInbound
    /\ \A k \in DOMAIN rxLog : HasUDH(p) => rxLog[k].short_message # p.short_message
    /\ rxLog' = Append(rxLog, p)
    /\ rxPc' = "dispatch"
    /\ UNCHANGED <<rxOut, rxTable, rxHandled, mgPc>>
    /\ UNCHANGED notRx

\* EnquireLink: auto-respond.
RxAutoRespond ==
    /\ rxPc = "dispatch"
    /\ rxCur.id = "EnquireLink"
    /\ rxOut' = Append(rxOut, NewEnquireLinkRespSeq(rxCur.seq))
    /\ rxPc' = "read"
    /\ UNCHANGED <<rxLog, rxTable, rxHandled, mgPc>>
    /\ UNCHANGED notRx

\* DeliverSM without UDH: the read loop calls the Handler directly; the
\* Handler returns, never returns, or panics, which ends the process.
RxHandle(h) ==
    /\ rxPc = "dispatch"
    /\ rxCur.id = "DeliverSM"
    /\ ~HasUDH(rxCur)
    /\ rxPc' = CASE h = "returns" -> "respond"
                 [] h = "blocks" -> "blocked"
                 [] h = "panics" -> "crashed"
    /\ rxHandled' = IF h = "returns" THEN rxHandled + 1 ELSE rxHandled
    /\ UNCHANGED <<rxLog, rxOut, rxTable, mgPc>>
    /\ UNCHANGED notRx

\* DeliverSM with UDH: the part is stored by bufferPart, which takes
\* messageMu.
RxBuffer ==
    /\ rxPc = "dispatch"
    /\ rxCur.id = "DeliverSM"
    /\ HasUDH(rxCur)
    /\ mgPc = "idle"
    /\ LET udh == UdhOf(rxCur.short_message)
       IN  rxTable' = setTotal(bufferPart(rxTable, udh[3], udh[5],
                                          PayloadOf(rxCur.short_message), 0),
                               udh[3], udh[4])
    /\ rxPc' = "respond"
    /\ UNCHANGED <<rxLog, rxOut, rxHandled, mgPc>>
    /\ UNCHANGED notRx

\* The DeliverSMResp is sent automatically, after the PDU was handled.
RxRespond ==
    /\ rxPc = "respond"
    /\ rxOut' = Append(rxOut, NewDeliverSMRespSeq(rxCur.seq))
    /\ rxPc' = "read"
    /\ UNCHANGED <<rxLog, rxTable, rxHandled, mgPc>>
    /\ UNCHANGED notRx

\* mergeLongMessages, case <-ticker.C with a complete bucket: the Handler is
\* called with messageMu held.
RxMerge(h) ==
    /\ mgPc = "idle"
    /\ rxPc # "crashed"
    /\ Complete(rxTable) # {}
    /\ IF h = "returns"
       THEN /\ rxTable' = [r \in DOMAIN rxTable \ Complete(rxTable) |-> rxTable[r]]
            /\ rxHandled' = rxHandled + 1
            /\ UNCHANGED <<mgPc, rxPc>>
       ELSE /\ mgPc' = IF h = "blocks" THEN "blocked" ELSE mgPc
            /\ rxPc' = IF h = "panics" THEN "crashed" ELSE rxPc
            /\ UNCHANGED <<rxTable, rxHandled>>
    /\ UNCHANGED <<rxLog, rxOut>>
    /\ UNCHANGED notRx

\* ------------------------------------------------------- pdutext.ISO88591

\* The UTF-8 bytes of one code point below U+10000.
UTF8Rune(cp) ==
    IF cp < 128 THEN <<cp>>
    ELSE IF cp < 2048 THEN <<192 + (cp \div 64), 128 + (cp % 64)>>
    ELSE <<224 + (cp \div 4096), 128 + ((cp \div 64) % 64), 128 + (cp % 64)>>

\* The UTF-8 bytes of a text.
RECURSIVE UTF8(_)
UTF8(text) ==
    IF text = <<>> THEN <<>> ELSE UTF8Rune(Head(text)) \o UTF8(Tail(text))

\* The code points of a sequence of UTF-8 bytes; -1 for a byte that starts
\* no well-formed sequence.
RECURSIVE Runes(_)
Runes(b) ==
    IF b = <<>> THEN <<>>
    ELSE IF b[1] < 128 THEN <<b[1]>> \o Runes(Tail(b))
    ELSE IF b[1] \in 194..223 /\ Len(b) >= 2 /\ b[2] \in 128..191
        THEN <<(b[1] - 192) * 64 + (b[2] - 128)>> \o Runes(SubSeq(b, 3, Len(b)))
    ELSE IF b[1] \in 224..239 /\ Len(b) >= 3 /\ b[2] \in 128..191 /\ b[3] \in 128..191
        THEN <<(b[1] - 224) * 4096 + (b[2] - 128) * 64 + (b[3] - 128)>>
                \o Runes(SubSeq(b, 4, Len(b)))
    ELSE <<-1>> \o Runes(Tail(b))

\* ISO88591.Type
Type(s) == DefaultType

\* ISO88591.Encode: the charmap encoder turns each rune into the byte of the
\* same value and fails on a rune that ISO-8859-1 does not have; on failure
\* the value is returned as it is.
Encode(s) ==
    LET r == Runes(s)
    IN  IF \E i \in DOMAIN r : r[i] < 0 \/ r[i] > 255 THEN s ELSE r

\* A decoder that returns its input.
DecodeIdentity(s) == s

\* ISO88591.Decode: the charmap decoder turns each byte into the rune of the
\* same value, written in UTF-8.
Decode(s) == UTF8(s)

\* s.Type() and s.Encode() on the text.
CodecEncode ==
    /\ cdPc = "text"
    /\ cdType' = Type(cdIn)
    /\ cdEnc' = Encode(cdIn)
    /\ cdPc' = "encoded"
    /\ UNCHANGED <<cdText, cdIn, cdDec>>
    /\ UNCHANGED notCodec

\* ISO88591(encoded).Decode()
CodecDecode ==
    /\ cdPc = "encoded"
    /\ cdDec' = Decode(cdEnc)
    /\ cdPc' = "decoded"
    /\ UNCHANGED <<cdText, cdIn, cdEnc, cdType>>
    /\ UNCHANGED notCodec

\* ------------------------------------------------------------------ BindFunc

\* BindFunc is running for the current connection and has written its
\* request.
Binding == pc = "bind" /\ bnFor = binds + 1

\* BindFunc writes the bind request (BindTransmitter, BindReceiver or
\* BindTransceiver) on the new connection.
BindWrite(s) ==
    /\ pc = "bind"
    /\ connOpen
    /\ bnFor # binds + 1
    /\ bnFor' = binds + 1
    /\ bnSeq' = s
    /\ bnResp' = <<>>
    /\ bnSkipped' = 0
    /\ UNCHANGED notBind

\* The response is the one BindFunc waits for: it has the sequence number
\* of the request.
BindRespMatches(req, resp) == resp.seq = req

\* BindFunc reads a bind response: it takes the one with the sequence
\* number of its request and goes on waiting after any other.
BindRead(s, st) ==
    /\ Binding
    /\ connOpen
    /\ bnResp = <<>>
    /\ LET resp == [seq |-> s, status |-> st]
       IN  IF BindRespMatches(bnSeq, resp)
             THEN bnResp' = resp /\ UNCHANGED bnSkipped
             ELSE /\ bnSkipped < MaxBindSkips
                  /\ bnSkipped' = bnSkipped + 1
                  /\ UNCHANGED bnResp
    /\ UNCHANGED <<bnFor, bnSeq>>
    /\ UNCHANGED notBind

\* A BindFunc that takes every response as a success.
BindAcceptedAlways(resp) == TRUE

\* check command_status == 0
BindAccepted(resp) == resp.status = ESME_ROK

\* BindFunc returns nil: its response has status 0.
BindReturnsOk ==
    /\ Binding
    /\ bnResp # <<>>
    /\ BindAccepted(bnResp)
    /\ BindOk

\* BindFunc returns an error: its response has a non-zero status, or the
\* connection failed before a response was read.
BindReturnsErr ==
    /\ Binding
    /\ IF bnResp # <<>> THEN ~BindAccepted(bnResp) ELSE TRUE
    /\ BindFail

\* ------------------------------------------- correlation and command ids

\* 0x80000000 | id on the halves.
RespIDOf(id) == <<IF id[1] >= Half THEN id[1] ELSE id[1] + Half, id[2]>>

\* Submit or QuerySM: the request takes the next sequence number, its
\* channel is stored in the inflight map, and it is written.
IdSubmit(w, id) ==
    /\ idPc[w] = "idle"
    /\ idSeq' = NewSeq(idSeq)
    /\ idReq' = [idReq EXCEPT ![w] = [id |-> id, seq |-> NewSeq(idSeq)]]
    /\ idInflight' = (NewSeq(idSeq) :> w) @@ idInflight
    /\ idPc' = [idPc EXCEPT ![w] = "wait"]
    /\ UNCHANGED <<idSlot, idOut>>
    /\ UNCHANGED notId

\* The reader reads a response with command id rid and the sequence number
\* s of an outstanding request:
\* if ch, ok := inflight[resp.Header().Seq]; ok { ch <- resp; delete(...) }
IdRead(s, rid) ==
    /\ s \in DOMAIN idInflight
    /\ idSlot' = [idSlot EXCEPT ![Lookup(idInflight, s)] =
                      [id |-> rid, seq |-> s, status |-> ESME_ROK]]
    /\ idInflight' = Delete(idInflight, s)
    /\ UNCHANGED <<idSeq, idPc, idReq, idOut>>
    /\ UNCHANGED notId

\* case resp := <-rc: the call returns the response, or its status as the
\* error.
IdRecv(w) ==
    /\ idPc[w] = "wait"
    /\ idSlot[w] # <<>>
    /\ idOut' = [idOut EXCEPT ![w] = [result |-> StatusErr(idSlot[w].status),
                                      resp |-> idSlot[w]]]
    /\ idSlot' = [idSlot EXCEPT ![w] = <<>>]
    /\ idPc' = [idPc EXCEPT ![w] = "done"]
    /\ UNCHANGED <<idSeq, idReq, idInflight>>
    /\ UNCHANGED notId

\* ------------------------------------------------- Receiver: inbound parts

\* A text of PartSize + 1 bytes b: a long message of two parts.
TwoParts(b) == [i \in 1..(PartSize + 1) |-> b]

\* The concatenation header with a 16-bit reference: IEI 0x08, IEDL 0x04,
\* the reference in two bytes, total parts, current part.
ConcatUDH16(refNum, total, i) ==
    <<8, 4, refNum \div 256, refNum % 256, total % 256, i % 256>>

\* The parts of a long text as a peer sends them with the concatenation
\* header of the given IEI.
PartsWithIEI(iei, text, refNum) ==
    IF iei = 0 THEN SubmitLongMsg(text, refNum)
    ELSE LET parts == splitMessage(text, PartSize)
         IN  [i \in 1..Len(parts) |->
                 <<6>> \o ConcatUDH16(refNum, Len(parts), i) \o parts[i]]

\* The DeliverSM PDUs that carry the given short_message fields from one
\* source address to one destination address.
Inbound(src, dst, msgs) ==
    [i \in DOMAIN msgs |->
        [source_addr |-> src, destination_addr |-> dst, short_message |-> msgs[i]]]

\* The reader has panicked while it parsed a UDH.
ParseFault == [fault |-> TRUE]

\* UDH detection and parsing, on the short_message of a DeliverSM whose
\* esm_class has the UDHI bit:
\*     udhLen := int(msg[0]); udh := msg[1 : 1+udhLen]; payload := msg[1+udhLen:]
\*     if udh[0] == 0x00 { refNum = udh[2]; totalParts = udh[3]; partNum = udh[4] }
\* An index or a slice bound outside the bytes is a run-time panic; with
\* another IEI the three fields keep their zero values.
ParseUDH(msg) ==
    IF msg = <<>> THEN ParseFault
    ELSE IF 1 + msg[1] > Len(msg) THEN ParseFault
    ELSE IF UdhOf(msg) = <<>> THEN ParseFault
    ELSE IF UdhOf(msg)[1] # 0
        THEN [fault |-> FALSE, refNum |-> 0, totalParts |-> 0, partNum |-> 0,
              payload |-> PayloadOf(msg)]
    ELSE IF Len(UdhOf(msg)) < 5 THEN ParseFault
    ELSE [fault |-> FALSE, refNum |-> UdhOf(msg)[3], totalParts |-> UdhOf(msg)[4],
          partNum |-> UdhOf(msg)[5], payload |-> PayloadOf(msg)]

\* Parts of a message of two parts with reference number refNum whose
\* header is malformed or inconsistent: part number 0, part number 3 of 2,
\* a total of 0, a total of 3, and a UDH length beyond the short_message.
MalformedParts(refNum) ==
    <<<<5, 0, 3, refNum, 2, 0, 66>>,
      <<5, 0, 3, refNum, 2, 3, 66>>,
      <<5, 0, 3, refNum, 0, 1, 66>>,
      <<5, 0, 3, refNum, 3, 2, 66>>,
      <<9, 0, 3, refNum, 2, 2, 66>>>>

\* assembleParts panics: ordered has msg.total elements and
\* ordered[partNum-1], with partNum a uint8, is outside it.
AssembleFaults(msg) ==
    \E partNum \in DOMAIN msg.parts : (partNum + 255) % 256 >= msg.total

\* The read loop reads the i-th DeliverSM: its UDH is parsed and its payload
\* buffered under the reference number of the UDH.
RawReceive(i) ==
    /\ rawFault = "none"
    /\ i \in DOMAIN rawIn
    /\ i \notin rawFed
    /\ rawFed' = rawFed \cup {i}
    /\ LET u == ParseUDH(rawIn[i].short_message)
       IN  IF u.fault
             THEN /\ rawFault' = "reader"
                  /\ UNCHANGED <<rawTable, rawChecked>>
             ELSE /\ rawTable' = setTotal(bufferPart(rawTable, u.refNum, u.partNum,
                                                     u.payload, 0),
                                          u.refNum, u.totalParts)
                  /\ rawChecked' = FALSE
                  /\ UNCHANGED rawFault
    /\ UNCHANGED <<rawIn, rawSent, rawHandled>>
    /\ UNCHANGED notRaw

\* mergeLongMessages, case <-ticker.C: every complete bucket is assembled,
\* passed to the Handler and deleted; a panic of assembleParts ends the
\* goroutine with the mutex held.
RawMerge ==
    /\ rawFault = "none"
    /\ ~rawChecked
    /\ IF \E r \in Complete(rawTable) : AssembleFaults(rawTable[r])
         THEN /\ rawFault' = "merger"
              /\ UNCHANGED <<rawTable, rawHandled, rawChecked>>
         ELSE /\ rawHandled' = rawHandled \o Assembled(rawTable, Complete(rawTable))
              /\ rawTable' = [r \in DOMAIN rawTable \ Complete(rawTable) |-> rawTable[r]]
              /\ rawChecked' = TRUE
              /\ UNCHANGED rawFault
    /\ UNCHANGED <<rawIn, rawSent, rawFed>>
    /\ UNCHANGED notRaw

\* ------------------------------------------------ long message references

\* Generate random 8-bit reference number: refNum := uint8(rand.Intn(255)).
\* The call draws any of the reference numbers, whatever the other calls
\* hold.
RefBegin(c, dst, ref) ==
    /\ rfPc[c] = "idle"
    /\ rfPc' = [rfPc EXCEPT ![c] = "sending"]
    /\ rfDst' = [rfDst EXCEPT ![c] = dst]
    /\ rfRef' = [rfRef EXCEPT ![c] = ref]
    /\ UNCHANGED rfSent
    /\ UNCHANGED notRef

\* The call submits its next part, with its reference number in the UDH.
RefPart(c) ==
    /\ rfPc[c] = "sending"
    /\ rfSent[c] < Len(SubmitLongMsg(TwoParts(65), rfRef[c]))
    /\ rfSent' = [rfSent EXCEPT ![c] = @ + 1]
    /\ UNCHANGED <<rfPc, rfDst, rfRef>>
    /\ UNCHANGED notRef

\* All parts are submitted and answered: the call returns.
RefReturn(c) ==
    /\ rfPc[c] = "sending"
    /\ rfSent[c] = Len(SubmitLongMsg(TwoParts(65), rfRef[c]))
    /\ rfPc' = [rfPc EXCEPT ![c] = "returned"]
    /\ UNCHANGED <<rfDst, rfRef, rfSent>>
    /\ UNCHANGED notRef

\* ------------------------------------------------------------ specification

\* The state after construction, but for the configuration.
InitSession ==
    /\ pc = "loop"
    /\ delay = InitialDelay
    /\ sleep = 0
    /\ timer = "off"
    /\ stop = FALSE
    /\ once = "idle"
    /\ cpc = [k \in Closers |-> "idle"]
    /\ connOpen = FALSE
    /\ Status = <<>>
    /\ statusClosed = FALSE
    /\ dials = 0
    /\ binds = 0
    /\ notified = 0
    /\ unbinds = 0
    /\ stopCloses = 0
    /\ statusCloses = 0
    /\ fails = 0
    /\ cycle = "none"
    /\ seq = 0
    /\ wpc = [w \in Callers |-> "idle"]
    /\ wseq = [w \in Callers |-> 0]
    /\ inflight = <<>>
    /\ slot = [w \in Callers |-> 0]
    /\ outcome = [w \in Callers |-> "none"]
    /\ respSeq = [w \in Callers |-> 0]
    /\ pending = {}
    /\ connFirst = 0
    /\ stamps = <<>>
    /\ lastStamp = 0
    /\ ka = "off"
    /\ now = 0
    /\ due = FALSE
    /\ eliTime = 0
    /\ lastRx = 0
    /\ rxPaced = TRUE
    /\ elOut = FALSE
    /\ slotStatus = [w \in Callers |-> ESME_ROK]
    /\ respStatus = [w \in Callers |-> ESME_ROK]
    /\ rxNacks = 0
    /\ wstate = [i \in Writers |-> "idle"]
    /\ wbytes = [i \in Writers |-> 0]
    /\ wire = <<>>
    /\ fed = <<>>
    /\ multipartMessages = <<>>
    /\ handled = <<>>
    /\ arrivedAt = <<>>
    /\ mnow = 0
    /\ mergeDue = FALSE
    /\ cleanupDue = FALSE
    /\ lsPc = "idle"
    /\ lsSent = <<>>
    /\ lsResps = <<>>
    /\ lsErr = "none"
    /\ factories = [f \in Sessions |-> 0]
    /\ sInflight = [i \in Sessions |-> <<>>]
    /\ sTable = [i \in Sessions |-> <<>>]
    /\ sStatus = [i \in Sessions |-> <<>>]
    /\ sClosed = [i \in Sessions |-> FALSE]
    /\ actor = 0
    /\ rxPc = "read"
    /\ rxLog = <<>>
    /\ rxOut = <<>>
    /\ rxTable = <<>>
    /\ rxHandled = 0
    /\ mgPc = "idle"
    /\ cdEnc = <<>>
    /\ cdDec = <<>>
    /\ cdType = -1
    /\ cdPc = "text"
    /\ handed = <<>>
    /\ taker = <<>>
    /\ bnFor = 0
    /\ bnSeq = 0
    /\ bnResp = <<>>
    /\ bnSkipped = 0
    /\ idSeq = 0
    /\ idPc = [w \in Callers |-> "idle"]
    /\ idReq = [w \in Callers |-> <<>>]
    /\ idInflight = <<>>
    /\ idSlot = [w \in Callers |-> <<>>]
    /\ idOut = [w \in Callers |-> <<>>]
    /\ rawFed = {}
    /\ rawTable = <<>>
    /\ rawHandled = <<>>
    /\ rawFault = "none"
    /\ rawChecked = FALSE
    /\ rfPc = [c \in LongCallers |-> "idle"]
    /\ rfDst = [c \in LongCallers |-> ""]
    /\ rfRef = [c \in LongCallers |-> 0]
    /\ rfSent = [c \in LongCallers |-> 0]

\* No long message is on its way to a Receiver.
NoLongMsg ==
    /\ longMsg = <<>>
    /\ segments = <<>>

\* SubmitLongMsg is not called.
NoLongCall ==
    /\ lsText = <<>>
    /\ lsEsm = 0
    /\ lsRef = 0

\* No DeliverSM is on its way to the Receiver.
NoInbound ==
    /\ rawIn = <<>>
    /\ rawSent = {}

\* &factory{}: the counter is zero.
NewFactory == fseq = <<0, 0>>

\* No text is given to a codec.
NoCodec ==
    /\ cdText = <<>>
    /\ cdIn = <<>>

\* A Transmitter with the default WindowSize: 0, unlimited.
Init ==
    /\ InitSession
    /\ WindowSize = 0
    /\ NoLongMsg
    /\ NoLongCall
    /\ NoCodec
    /\ NewFactory
    /\ NoInbound

\* A Transmitter configured with a window.
WindowInit ==
    /\ InitSession
    /\ WindowSize \in 1..MaxWindow
    /\ NoLongMsg
    /\ NoLongCall
    /\ NoCodec
    /\ NewFactory
    /\ NoInbound

\* A text longer than one part has gone through SubmitLongMsg, with one of
\* the reference numbers; its parts are on their way to a Receiver.
LongMsgInit ==
    /\ InitSession
    /\ WindowSize = 0
    /\ longMsg \in LongTexts
    /\ \E ref \in RefNums : segments = SubmitLongMsg(longMsg, ref)
    /\ NoLongCall
    /\ NoCodec
    /\ NewFactory
    /\ NoInbound

\* SubmitLongMsg is about to be called with a ShortMessage whose text needs
\* more than one part.
LongCallInit ==
    /\ InitSession
    /\ WindowSize = 0
    /\ NoLongMsg
    /\ lsText \in CallTexts
    /\ lsEsm \in EsmClasses
    /\ lsRef \in RefNums
    /\ NoCodec
    /\ NewFactory
    /\ NoInbound

\* A text is given to the ISO88591 codec in UTF-8.
CodecInit ==
    /\ InitSession
    /\ WindowSize = 0
    /\ NoLongMsg
    /\ NoLongCall
    /\ cdText \in Texts
    /\ cdIn = UTF8(cdText)
    /\ NewFactory
    /\ NoInbound

\* Two peers send each a long message of two parts to the Receiver; both
\* messages carry the same reference number and differ in the source or in
\* the destination address.
KeyInit ==
    /\ InitSession
    /\ WindowSize = 0
    /\ NoLongMsg
    /\ NoLongCall
    /\ NoCodec
    /\ NewFactory
    /\ rawSent = {TwoParts(65), TwoParts(66)}
    /\ \E ref \in RefNums, other \in {<<"b", "x">>, <<"a", "y">>} :
            rawIn = Inbound("a", "x", SubmitLongMsg(TwoParts(65), ref))
                        \o Inbound(other[1], other[2], SubmitLongMsg(TwoParts(66), ref))

\* A peer sends one long message to the Receiver, all its parts with the
\* 8-bit concatenation header or all with the 16-bit one.
IeiInit ==
    /\ InitSession
    /\ WindowSize = 0
    /\ NoLongMsg
    /\ NoLongCall
    /\ NoCodec
    /\ NewFactory
    /\ \E text \in LongTexts, iei \in {0, 8}, ref \in RefNums :
            /\ rawSent = {text}
            /\ rawIn = Inbound("a", "x", PartsWithIEI(iei, text, ref))

\* A peer sends the two parts of a long message and, with the same
\* reference number, one part whose UDH is malformed or inconsistent.
MalformedInit ==
    /\ InitSession
    /\ WindowSize = 0
    /\ NoLongMsg
    /\ NoLongCall
    /\ NoCodec
    /\ NewFactory
    /\ rawSent = {TwoParts(65)}
    /\ \E ref \in RefNums : \E bad \in DOMAIN MalformedParts(ref) :
            rawIn = Inbound("a", "x", SubmitLongMsg(TwoParts(65), ref)
                                          \o <<MalformedParts(ref)[bad]>>)

\* A factory that has handed out 0, 2^31 - 3 or 2^32 - 3 sequence numbers
\* since it was made: its counter is that number.
FactoryInit ==
    /\ InitSession
    /\ WindowSize = 0
    /\ NoLongMsg
    /\ NoLongCall
    /\ NoCodec
    /\ fseq \in {<<0, 0>>, <<Half - 1, Word - 3>>, <<Word - 1, Word - 3>>}
    /\ NoInbound

BindStep ==
    \/ LoopEnter
    \/ LoopExit
    \/ DialFail
    \/ DialOk
    \/ BindFail
    \/ BindOk
    \/ ReadErr
    \/ Retry
    \/ TrySleepReturn

CloseStep(k) ==
    \/ CloseCall(k)
    \/ CloseStop(k)
    \/ CloseUnbind(k)
    \/ CloseConn(k)
    \/ CloseUnblock(k)

\* The reconnection loop and the callers of Close().  notify never blocks, so
\* neither depends on whether anybody receives from c.Status.
Next ==
    \/ BindStep /\ dials' <= MaxDials
    \/ TimerFire
    \/ \E k \in Closers : CloseStep(k)

Spec == Init /\ [][Next]_vars

\* The reconnection loop as the producer of c.Status: no Close() is called,
\* so the loop never ends.
StatusLoop ==
    \/ LoopEnter
    \/ DialFail
    \/ DialOk
    \/ BindFail
    \/ BindOk
    \/ ReadErr
    \/ Retry
    \/ TrySleepReturn

\* The producer with a consumer of c.Status that receives at any pace, or
\* never.
StatusNext ==
    \/ StatusLoop /\ dials' <= StatusMaxDials
    \/ TimerFire
    \/ StatusRecv

StatusSpec == Init /\ [][StatusNext]_vars

SubmitProgress(w) ==
    \/ SubmitRegister(w)
    \/ SubmitWrite(w)
    \/ SubmitRecv(w)
    \/ SubmitTimeout(w)

SubmitStep(w) ==
    \/ SubmitBegin(w)
    \/ SubmitProgress(w)

\* The reconnection loop next to the callers of Submit/Query: the SMSC
\* accepts every dial and every bind, so that a BindFunc fails only on a
\* connection that Close() closed under it.  A failed attempt leaves no
\* connection behind and differs from a lost connection only in the status
\* it notifies.
TxLoop ==
    \/ LoopEnter
    \/ LoopExit
    \/ DialOk
    \/ BindOk
    \/ BindFail /\ ~connOpen
    \/ ReadErr
    \/ Retry
    \/ TrySleepReturn

\* A single call of Close(): it never waits for another caller's f.
CloseAlone(k) ==
    \/ CloseCall(k)
    \/ CloseStop(k)
    \/ CloseUnbind(k)
    \/ CloseConn(k)

\* The session with callers of Submit/Query: the reconnection loop, limited
\* to TxMaxDials connections, one call of Close(), the callers and the
\* reader's dispatch.
TxNext ==
    \/ TxLoop /\ dials' <= TxMaxDials
    \/ TimerFire
    \/ CloseAlone(1)
    \/ \E w \in Callers : SubmitStep(w)
    \/ \E s \in pending : ReadPDU(s)

TxSpec == Init /\ [][TxNext]_vars

\* A Submit call that has started runs on: its goroutine is scheduled and the
\* timer of time.After(t.RespTimeout) fires.
FairTxSpec == TxSpec /\ \A w \in Callers : WF_vars(SubmitProgress(w))

\* The DeliverSM PDUs reach the Receiver in any order, and the merge ticker
\* runs at any time.
RawNext ==
    \/ \E i \in DOMAIN rawIn : RawReceive(i)
    \/ RawMerge

KeySpec == KeyInit /\ [][RawNext]_vars

MalformedSpec == MalformedInit /\ [][RawNext]_vars

IeiSpec == IeiInit /\ [][RawNext]_vars

\* Concurrent calls of SubmitLongMsg from one source address.
RefNext ==
    \/ \E c \in LongCallers, dst \in Destinations, ref \in RefNums : RefBegin(c, dst, ref)
    \/ \E c \in LongCallers : RefPart(c)
    \/ \E c \in LongCallers : RefReturn(c)

RefSpec == Init /\ [][RefNext]_vars

\* Close() is called, by any of its callers and at any time, next to the
\* reconnection loop, which reads and notifies, and to the keepalive timer.
ShutNext ==
    \/ BindStep /\ dials' <= ShutMaxDials
    \/ TimerFire
    \/ \E k \in Closers : CloseStep(k)
    \/ ClockTick /\ now' <= ShutMaxTime
    \/ EnquireLinkTick

ShutSpec == Init /\ [][ShutNext]_vars

\* Callers of Submit and QuerySM on a bound Transmitter, and an SMSC that
\* answers each request with a response of either kind.
IdNext ==
    \/ \E w \in Callers, id \in TxRequestIDs : IdSubmit(w, id)
    \/ \E s \in 1..MaxCalls, rid \in TxResponseIDs : IdRead(s, rid)
    \/ \E w \in Callers : IdRecv(w)

IdSpec == Init /\ [][IdNext]_vars

\* The reconnection loop with the bind exchange: every dial succeeds, a
\* bound connection is lost at any time, and BindFunc returns what its
\* exchange with the SMSC gives.
BindLoop ==
    \/ LoopEnter
    \/ DialOk
    \/ BindReturnsOk
    \/ BindReturnsErr
    \/ ReadErr
    \/ Retry
    \/ TrySleepReturn

BindNext ==
    \/ BindLoop /\ dials' <= BindMaxDials
    \/ TimerFire
    \/ \E s \in BindSeqs : BindWrite(s)
    \/ \E s \in BindSeqs, st \in BindStatuses : BindRead(s, st)

BindSpec == Init /\ [][BindNext]_vars

\* The reconnection loop next to the keepalive: the SMSC accepts every dial
\* and every bind, and a connection is lost only when the keepalive closes
\* it.
KaLoop ==
    \/ LoopEnter
    \/ DialOk
    \/ BindOk
    \/ Retry
    \/ TrySleepReturn

\* c.conn.Read() on a connection that was closed locally returns an error.
ReadClosed == ReadErr /\ ~connOpen

KaLoopProgress == KaLoop /\ dials' <= KaMaxDials

KaNext ==
    \/ KaLoopProgress
    \/ ReadClosed
    \/ TimerFire
    \/ ClockTick
    \/ EnquireLinkTick
    \/ ReadEnquireLinkResp
    \/ ReadOther

KaSpec == Init /\ [][KaNext]_vars

\* The goroutines are scheduled and the timers fire; nothing is assumed of
\* the peer.
FairKaSpec ==
    /\ KaSpec
    /\ WF_vars(KaLoopProgress)
    /\ WF_vars(ReadClosed)
    /\ WF_vars(TimerFire)
    /\ WF_vars(EnquireLinkTick)

\* A session that binds once and stays bound, its callers, and an SMSC that
\* answers with responses and with GenericNACKs, also for sequence numbers
\* that nobody waits for.
NackNext ==
    \/ LoopEnter
    \/ (DialOk \/ BindOk) /\ dials' <= 1
    \/ \E w \in Callers : SubmitStep(w)
    \/ \E s \in pending : ReadPDU(s)
    \/ \E s \in 1..(seq + 1) : ReadGenericNack(s)

NackSpec == Init /\ [][NackNext]_vars

\* A Transmitter with a window on a session that binds once and stays
\* bound, its concurrent callers and the reader's dispatch.
WindowNext ==
    \/ LoopEnter
    \/ (DialOk \/ BindOk) /\ dials' <= 1
    \/ \E w \in Callers : SubmitStep(w)
    \/ \E s \in pending : ReadPDU(s)

WindowSpec == WindowInit /\ [][WindowNext]_vars

\* The concurrent writers of one connection.
WriteNext ==
    \E i \in Writers :
        \/ WriteBegin(i)
        \/ WriteByte(i)
        \/ WriteEnd(i)

WriteSpec == Init /\ [][WriteNext]_vars

\* The parts of one long message reach a Receiver in any order, between the
\* ticks of its merger.
MergeNext ==
    \/ \E i \in DOMAIN segments : ReceivePart(i)
    \/ MergeTick

MergeSpec == LongMsgInit /\ [][MergeNext]_vars

\* The parts of one long message reach a Receiver at any times, while the
\* two tickers of its merger run; a select with both ticks waiting takes
\* either.
SweepNext ==
    \/ \E i \in DOMAIN segments : ReceivePart(i)
    \/ MergeClock
    \/ MergeTicker
    \/ CleanupTicker

SweepSpec == LongMsgInit /\ [][SweepNext]_vars

\* One call of SubmitLongMsg, each part's Submit ending with a response or
\* with one of its errors.
LongCallNext ==
    \/ SubmitLongBegin
    \/ \E res \in {"resp"} \cup SubmitErrors : SubmitLongPart(res)
    \/ SubmitLongReturn

LongCallSpec == LongCallInit /\ [][LongCallNext]_vars

\* The sessions of one process, used independently of each other.
MultiNext ==
    \E i \in Sessions :
        \/ SessSubmit(i)
        \/ \E s \in 1..MaxSessSeq : SessResponse(i, s)
        \/ SessReconnect(i)
        \/ \E k \in DOMAIN SessParts : SessPart(i, k)
        \/ SessClose(i)

MultiSpec == Init /\ [][MultiNext]_vars

\* Goroutines take sequence numbers from one factory, in any order.
FactoryNext == \E g \in Takers : TakeSeq(g)

FactorySpec == FactoryInit /\ [][FactoryNext]_vars

\* A text is encoded and the result decoded.
CodecNext ==
    \/ CodecEncode
    \/ CodecDecode

CodecSpec == CodecInit /\ [][CodecNext]_vars

\* The steps of the read loop after it has read a PDU.
RxProgress ==
    \/ RxAutoRespond
    \/ \E h \in HandlerOutcomes : RxHandle(h)
    \/ RxBuffer
    \/ RxRespond

\* A bound Receiver: its read loop and its merger, with a Handler that may
\* misbehave.
RxNext ==
    \/ \E p \in InboundPDUs : RxRead(p)
    \/ RxProgress
    \/ \E h \in HandlerOutcomes : RxMerge(h)

RxSpec == Init /\ [][RxNext]_vars

\* The read loop goes on whenever it can.
FairRxSpec == RxSpec /\ WF_vars(RxProgress)

TypeOK ==
    /\ pc \in {"loop", "dial", "bind", "read", "retry", "sleep", "done"}
    /\ delay \in InitialDelay..maxdelay
    /\ timer \in {"off", "armed", "fired"}
    /\ stop \in BOOLEAN
    /\ once \in {"idle", "running", "done"}
    /\ connOpen \in BOOLEAN
    /\ Len(Status) <= StatusCap

\* The steps of client.Bind that return in bounded time once they are
\* reached (Dial and BindFunc have their own timeouts); c.conn.Read() is not
\* among them: it blocks for as long as the peer is silent and the
\* connection is open.
LoopRuns ==
    \/ LoopEnter
    \/ LoopExit
    \/ DialFail
    \/ DialOk
    \/ BindFail
    \/ BindOk
    \/ Retry
    \/ TrySleepReturn

LoopProgress == LoopRuns /\ dials' <= MaxDials

\* A Close() call that has started runs to its end.
CloseProgress(k) ==
    \/ CloseStop(k)
    \/ CloseUnbind(k)
    \/ CloseConn(k)
    \/ CloseUnblock(k)

\* The goroutines are scheduled; nothing is assumed of the timers.
SchedSpec ==
    /\ Spec
    /\ WF_vars(LoopProgress)
    /\ WF_vars(ReadClosed)
    /\ \A k \in Closers : WF_vars(CloseProgress(k))

\* The goroutines are scheduled and an armed timer fires.
FairSpec == SchedSpec /\ WF_vars(TimerFire)

\* -------------------------------------------------------------------- claims

AllReturned == \A k \in Closers : cpc[k] = "returned"

Outstanding(w) == wpc[w] \in {"write", "wait"}

C2_UniqueSeq ==
    /\ \A w1, w2 \in Callers :
            (w1 # w2 /\ Outstanding(w1) /\ Outstanding(w2)) => wseq[w1] # wseq[w2]
    /\ \A w \in Callers :
            (Outstanding(w) /\ wseq[w] \in DOMAIN inflight) => inflight[wseq[w]] = w

C2_Witness ==
    /\ dials >= 2
    /\ bound
    /\ \E w1, w2 \in Callers :
            /\ w1 # w2
            /\ wpc[w1] = "wait"
            /\ wpc[w2] = "wait"
            /\ {wseq[w1], wseq[w2]} \subseteq DOMAIN inflight

\* C3: the response a Submit/Query returns carries the sequence number that
\* its request was given, in whatever order the SMSC answers.
C3_Correlation ==
    \A w \in Callers : outcome[w] = "resp" => respSeq[w] = wseq[w]

\* The request with the higher sequence number is answered while the one
\* with the lower still waits.
C3_Witness ==
    \E w1, w2 \in Callers :
        /\ wseq[w1] # 0
        /\ wseq[w1] < wseq[w2]
        /\ wpc[w1] = "wait"
        /\ wseq[w1] \in pending
        /\ outcome[w2] = "resp"

C6_ClosedTerminal ==
    /\ [][once = "done" => (dials' = dials /\ binds' = binds /\ notified' = notified)]_vars
    /\ (once = "done" ~> statusClosed)

\* C7: unless close() is called the session never stops reconnecting: whenever
\* the loop is not dialing, binding or bound, it gets to dial again.
C7_KeepsReconnecting ==
    (~stop /\ pc \notin {"dial", "bind", "read"}) ~> (pc = "dial" \/ stop)

C7_Witness ==
    /\ pc = "dial"
    /\ ~stop
    /\ fails >= 3
    /\ binds >= 1

\* The claimed sleep after n consecutive failed dials: min(1 s * e^n, 120 s).
RECURSIVE ClaimedSleep(_)
ClaimedSleep(n) ==
    IF n = 0 THEN InitialDelay ELSE Min(MulE(ClaimedSleep(n - 1)), maxdelay)

\* C8: after N consecutive failed dials the next backoff sleep is
\* min(1 s * e^N, 120 s).
C8_BackoffSleep ==
    (pc = "sleep" /\ cycle = "dial" /\ binds = 0) => sleep = ClaimedSleep(fails)

\* C9: when a connection that was bound is lost, the first reconnection
\* attempt is made after a delay of 1 s.
C9_ResetSleep ==
    (pc = "sleep" /\ cycle = "lost") => sleep = InitialDelay

\* C10: a backoff sleep is interruptible by close(): when c.stop is closed
\* while the loop sleeps, the loop ends, whether or not the timer fires, and
\* it does not dial again.
C10_SleepInterruptible ==
    /\ (pc = "sleep" /\ stop) ~> (pc = "done")
    /\ [][(stop /\ pc \in {"sleep", "loop"}) =>
            (dials' = dials /\ pc' \in {"sleep", "loop", "done"})]_vars

C10_Witness ==
    /\ pc = "done"
    /\ timer = "armed"
    /\ sleep = maxdelay

\* C11: status events appear on c.Status in the order of the transitions
\* that produced them: the buffered events are in the order of their notify
\* calls, and every event the consumer receives was notified after the one
\* it received before.
C11_StatusOrder ==
    /\ Len(stamps) = Len(Status)
    /\ \A i, j \in 1..Len(stamps) : i < j => stamps[i] < stamps[j]
    /\ \A i \in 1..Len(stamps) : lastStamp < stamps[i] /\ stamps[i] <= notified

\* The consumer has received events of two connections while later events
\* wait in the channel.
C11_Witness ==
    /\ lastStamp >= 3
    /\ Len(stamps) >= 2
    /\ binds >= 2

\* C12: notify never blocks, and on a full channel it drops the oldest
\* buffered event and enqueues the new one.
C12_DropOldest ==
    [][(notified' = notified + 1 /\ Len(Status) = StatusCap) =>
            (/\ Len(Status') = StatusCap
             /\ stamps' = Append(Tail(stamps), notified'))]_vars

\* C13: while the session is bound the peer's silence never lasts longer than
\* EnquireLinkTimeout plus one EnquireLink interval with the socket still
\* open; once the keepalive has closed the socket the session notifies
\* Disconnected and gets to dial again.
C13_KeepaliveLiveness ==
    /\ [](bound /\ connOpen => now - lastRx <= EnquireLinkTimeout + EnquireLinkPeriod)
    /\ (bound /\ ~connOpen) ~> (cycle = "lost" /\ pc = "dial")

\* The keepalive closes the second connection after the peer, which had
\* sent bytes on it, was silent for the timeout.
C13_Witness ==
    /\ dials = 2
    /\ bound
    /\ ~connOpen
    /\ ka = "off"
    /\ lastRx > 0
    /\ now - lastRx >= EnquireLinkTimeout

\* The read loop leaves a bound connection because Read failed.
ConnectionLost == pc = "read" /\ pc' = "retry"

C15_TimeoutRemovesWaiter ==
    [][\A w \in Callers :
            /\ (outcome[w] = "none" /\ outcome'[w] = "Timeout") =>
                    /\ wseq[w] \notin DOMAIN inflight'
                    /\ pc' = pc
                    /\ connOpen' = connOpen
            /\ outcome[w] = "Timeout" => outcome'[w] = "Timeout"]_vars

\* C16: a response with a non-zero status, or a GenericNACK, that carries the
\* sequence number of an outstanding request resolves exactly that request
\* with the status as the error; the session stays bound and the sequence
\* numbers go on by one; a GenericNACK whose sequence number is not
\* registered changes neither the session nor any waiter.
C16_ProtocolError ==
    /\ [](\A w \in Callers :
            /\ outcome[w] = "Protocol" => (respStatus[w] # ESME_ROK /\ respSeq[w] = wseq[w])
            /\ outcome[w] = "resp" => (respStatus[w] = ESME_ROK /\ respSeq[w] = wseq[w]))
    /\ [][rxNacks' # rxNacks =>
            /\ pc' = pc /\ connOpen' = connOpen /\ seq' = seq
            /\ outcome' = outcome /\ wpc' = wpc
            /\ \A w \in Callers : slot'[w] # slot[w] =>
                    /\ wseq[w] \in DOMAIN inflight
                    /\ inflight[wseq[w]] = w
                    /\ slot'[w] = wseq[w]
                    /\ slotStatus'[w] # ESME_ROK
                    /\ \A v \in Callers \ {w} : slot'[v] = slot[v]
            /\ inflight' = inflight => (slot' = slot /\ slotStatus' = slotStatus)]_vars
    /\ [][seq' # seq => seq' = seq + 1]_vars

\* One Submit returned the status of a GenericNACK, the Submit with the next
\* sequence number returned its response, and a second GenericNACK found
\* nobody registered; the session is still bound.
C16_Witness ==
    /\ bound
    /\ connOpen
    /\ rxNacks = 2
    /\ \E w1, w2 \in Callers :
            /\ outcome[w1] = "Protocol"
            /\ respStatus[w1] = ESME_RTHROTTLED
            /\ wseq[w2] = wseq[w1] + 1
            /\ outcome[w2] = "resp"

C18_WindowBound ==
    WindowSize > 0 =>
        /\ Cardinality({w \in Callers : Outstanding(w)}) <= WindowSize
        /\ \A w \in Callers : outcome[w] # "MaxWindowSize"

\* C19: bytes of distinct PDUs never interleave on the socket: the bytes of
\* each PDU are on the wire in one contiguous block, in their order.
C19_NoInterleave ==
    \A a, b \in 1..Len(wire) :
        (a < b /\ wire[a][1] = wire[b][1]) =>
            /\ wire[b][2] = wire[a][2] + (b - a)
            /\ \A c \in a..b : wire[c][1] = wire[a][1]

\* Every writer has written its PDU, and not in the order of the writers'
\* numbers.
C19_Witness ==
    /\ \A i \in Writers : wstate[i] = "done"
    /\ Len(wire) = NumWriters * PduLen
    /\ wire[1][1] # 1

AllWithinTTL ==
    /\ Len(fed) = Len(segments)
    /\ arrivedAt[Len(arrivedAt)] - arrivedAt[1] <= MergeCleanupInterval

\* C21: a multi-part message is never passed to the Handler twice, and one
\* whose parts all arrived within MergeCleanupInterval of the first is passed
\* to it once: when no bucket is left for it, it has been delivered.
C21_ExactlyOnce ==
    /\ Len(handled) <= 1
    /\ (AllWithinTTL /\ multipartMessages = <<>>) => Len(handled) = 1

\* No tick of the merger waits to be handled.
TickersIdle == ~mergeDue /\ ~cleanupDue

CeilParts == (Len(lsText) + PartSize - 1) \div PartSize

\* The pieces of text carried by the first n submitted parts, concatenated.
RECURSIVE SentText(_)
SentText(n) ==
    IF n = 0 THEN <<>>
    ELSE SentText(n - 1)
            \o SubSeq(lsSent[n].short_message, 7, Len(lsSent[n].short_message))

\* C23: SubmitLongMsg emits the parts 1..total in order, total =
\* ceil(len(B)/C), each with the UDH bit set in esm_class and the header
\* 05 00 03 ref total i with the same reference and total; when it has
\* emitted them all the pieces concatenated are B; if total > 255 it fails
\* and emits nothing.
C23_SplitParts ==
    /\ \A i \in DOMAIN lsSent :
        /\ (lsSent[i].esm_class \div 64) % 2 = 1
        /\ SubSeq(lsSent[i].short_message, 1, 6) = <<5, 0, 3, lsRef, CeilParts, i>>
        /\ Len(lsSent[i].short_message) > 6
        /\ Len(lsSent[i].short_message) <= 6 + PartSize
    /\ Len(lsSent) <= CeilParts
    /\ (lsPc = "returned" /\ lsErr = "none") =>
        /\ Len(lsSent) = CeilParts
        /\ SentText(Len(lsSent)) = lsText
    /\ CeilParts > 255 =>
        /\ lsSent = <<>>
        /\ lsPc = "returned" => lsErr = "TooManyParts"
    /\ lsErr = "TooManyParts" => CeilParts > 255

\* A text of three parts, the last one shorter, was sent whole.
C23_Witness ==
    /\ lsPc = "returned"
    /\ lsErr = "none"
    /\ Len(lsSent) = 3
    /\ Len(lsText) % PartSize # 0

\* C24: the parts are submitted one after the other; the call ends at the
\* first part whose Submit fails: no later part is submitted, and the call
\* returns that error with the responses of the parts before it, in order.
C24_StopAtFirstError ==
    /\ lsResps = [i \in 1..Len(lsResps) |-> i]
    /\ lsErr \in SubmitErrors =>
        /\ lsPc = "returned"
        /\ Len(lsSent) = Len(lsResps) + 1
    /\ lsErr = "none" => Len(lsSent) = Len(lsResps)

\* The second part of three failed: the call returned its error and the
\* response to the first part, and the third part was not submitted.
C24_Witness ==
    /\ lsPc = "returned"
    /\ lsErr = "Timeout"
    /\ Len(lsSent) = 2
    /\ lsResps = <<1>>
    /\ CeilParts = 3

\* C25: an operation on one session (submit, response, reconnection, inbound
\* part, close) leaves every other session's sequence counter, inflight map,
\* reassembly table and status stream as they were.
C25_SessionsShareNothing ==
    [][\A i \in Sessions :
          actor' # i =>
              /\ factories'[i] = factories[i]
              /\ sInflight'[i] = sInflight[i]
              /\ sTable'[i] = sTable[i]
              /\ sStatus'[i] = sStatus[i]
              /\ sClosed'[i] = sClosed[i]]_vars

\* Both sessions have allocated the same sequence number and hold a part
\* with the same reference number, each in its own table, and one of them
\* has been closed since.
C25_Witness ==
    /\ factories[1] = 1
    /\ factories[2] = 1
    /\ 1 \in DOMAIN sInflight[1]
    /\ 1 \in DOMAIN sInflight[2]
    /\ 0 \in DOMAIN sTable[1]
    /\ 0 \in DOMAIN sTable[2]
    /\ sTable[1] # sTable[2]
    /\ sStatus[1] = <<"Disconnected", "Connected">>
    /\ sStatus[2] = <<>>
    /\ sClosed[2]
    /\ ~sClosed[1]

\* The response the k-th PDU read calls for.
ExpectedResp(k) ==
    [id |-> IF rxLog[k].id = "EnquireLink" THEN "EnquireLinkResp" ELSE "DeliverSMResp",
     seq |-> rxLog[k].seq,
     status |-> 0]

C27_HandlerIsolated ==
    \A k \in 1..MaxInbound :
        [](Len(rxLog) >= k => <>(Len(rxOut) >= k /\ rxPc = "read"))

\* The text has only characters of ISO-8859-1.
Representable == \A i \in DOMAIN cdText : cdText[i] <= 255

\* C28: Type is 0x00 for every value; for a text representable in
\* ISO-8859-1, Encode of its UTF-8 bytes gives one byte per character, the
\* character's code, and Decode of these bytes gives the UTF-8 bytes back.
C28_Latin1RoundTrip ==
    /\ cdPc # "text" => cdType = 0
    /\ (cdPc # "text" /\ Representable) => cdEnc = cdText
    /\ (cdPc = "decoded" /\ Representable) => cdDec = cdIn

\* A text with a character of the upper half, two bytes in UTF-8 and one in
\* ISO-8859-1, went through Encode and Decode.
C28_Witness ==
    /\ cdPc = "decoded"
    /\ cdText = <<233, 65>>
    /\ cdIn = <<195, 169, 65>>
    /\ cdEnc = <<233, 65>>
    /\ cdDec = cdIn

\* 2^31 - 1 on the halves, and the uint32 values up to it.
MaxSeq == <<Half - 1, Word - 1>>
InSeqRange(u) == u # <<0, 0>> /\ u[1] < Half

\* C29: the first sequence number of a factory is 1 and each allocation
\* gives the previous one plus 1; after 2^31 - 1 the next is 1; an allocated
\* sequence number is never 0 and never above 2^31 - 1; no number is handed
\* out twice, whichever goroutines take them.
C29_SeqRange ==
    /\ (fseq = <<0, Len(handed)>> /\ handed # <<>>) => handed[1] = <<0, 1>>
    /\ \A k \in DOMAIN handed : InSeqRange(handed[k])
    /\ \A k \in DOMAIN handed : k > 1 =>
            handed[k] = IF handed[k - 1] = MaxSeq THEN <<0, 1>>
                        ELSE AddUint32(handed[k - 1], 1)
    /\ \A j, k \in DOMAIN handed : j # k => handed[j] # handed[k]

\* C30: after a reconnection, the first request written on the new
\* connection carries sequence number 1.  Stated for callers that do not
\* overtake each other: every request with a lower sequence number has
\* returned when the first request of the connection is written.
C30_RestartAtOne ==
    [][(/\ binds >= 2
        /\ connFirst = 0
        /\ connFirst' # 0
        /\ \A w \in Callers : (wseq[w] # 0 /\ wseq[w] < connFirst') => wpc[w] = "done")
       => connFirst' = 1]_vars

\* The enquireLink goroutine declares the connection dead: it closes it.
KeepaliveCloses == ka = "on" /\ ka' = "off" /\ connOpen /\ ~connOpen'

\* C31: the keepalive deadline is measured from the last PDU of any kind
\* received: while the peer's PDUs, EnquireLinkResp or not, follow each
\* other at less than EnquireLinkTimeout and the last one is less than
\* EnquireLinkTimeout old, the keepalive does not close the connection.
C31_DeadlineFromAnyPDU ==
    [][KeepaliveCloses => ~(rxPaced /\ now - lastRx < EnquireLinkTimeout)]_vars

\* The loop leaves the bind step.
BindReturns == pc = "bind" /\ pc' # "bind"

C33_ResponseID ==
    /\ \A w \in Callers : idOut[w] # <<>> =>
            /\ idOut[w].resp.seq = idReq[w].seq
            /\ idOut[w].result = IF idOut[w].resp.id = RespIDOf(idReq[w].id)
                                   THEN "resp" ELSE "Protocol"
    /\ \A p \in ResponseIDs : p[2] = RespIDOf(p[1])

\* C34: parts of two messages that carry the same reference number and
\* differ in source or destination address are never combined: every
\* message passed to the Handler is the text of one of the two messages,
\* and neither goroutine faults.
C34_KeyedByAddresses ==
    /\ rawFault = "none"
    /\ \A k \in DOMAIN rawHandled : rawHandled[k] \in rawSent

\* Every PDU on its way was read and the merge ticker has run since.
AllMerged == rawFed = DOMAIN rawIn /\ rawChecked

\* C35: a message whose parts all carry the 16-bit concatenation header
\* (IEI 0x08) is buffered and delivered like one with the 8-bit header
\* (IEI 0x00): once all its parts were read and the merge ticker has run,
\* the Handler has received the text, once, and nothing is left in the
\* table.
C35_BothIEI ==
    /\ rawFault = "none"
    /\ AllMerged => (rawHandled \in [{1} -> rawSent] /\ rawTable = <<>>)

\* C36: two long messages to the same destination whose parts are
\* outstanding at the same time never carry the same reference number.
C36_DistinctReferences ==
    \A c, d \in LongCallers :
        (c # d /\ rfPc[c] = "sending" /\ rfPc[d] = "sending" /\ rfDst[c] = rfDst[d])
            => rfRef[c] # rfRef[d]

C38_NoRegistrationRace ==
    /\ [](\A w \in Callers :
            (wpc[w] = "wait" /\ wseq[w] \in pending)
                => (wseq[w] \in DOMAIN inflight /\ inflight[wseq[w]] = w))
    /\ [][\A w \in Callers :
            (wpc[w] = "wait" /\ wseq[w] \in pending /\ ReadPDU(wseq[w]))
                => slot'[w] = wseq[w]]_vars
    /\ [][\A w \in Callers :
            (wpc[w] = "wait" /\ slot[w] # 0) => outcome'[w] # "Timeout"]_vars

\* The response of one caller was read and is in its channel while the
\* caller has not looked at it yet, and the other caller's request is written
\* and not answered.
C38_Witness ==
    \E w, v \in Callers :
        /\ w # v
        /\ wpc[w] = "wait"
        /\ slot[w] = wseq[w]
        /\ wseq[w] # 0
        /\ wpc[v] = "wait"
        /\ wseq[v] \in pending

\* C39: a bucket that became complete before its stale deadline is not
\* discarded: when all the parts arrived within MergeCleanupInterval of the
\* first, the sweep of case <-cleanup.C removes no bucket that holds all its
\* parts; such a bucket leaves the table only by being passed to the Handler.
C39_CompleteNotSwept ==
    [][(CleanupTicker /\ AllWithinTTL)
          => \A r \in Complete(multipartMessages) :
                 r \in DOMAIN multipartMessages']_vars

\* C40: a part whose UDH is malformed or inconsistent (part number 0 or
\* above the total, total 0, a total other than the bucket's, a UDH length
\* beyond the short_message) faults neither the read loop nor the merger,
\* and every message passed to the Handler is a message that was sent, with
\* no part missing or misplaced.
C40_MalformedHarmless ==
    /\ rawFault = "none"
    /\ \A k \in DOMAIN rawHandled : rawHandled[k] \in rawSent

=============================================================================
